---- MODULE Spec2Model ----
(***************************************************************************)
(* Slot-filling dialogue engine of the travel voice assistant.             *)
(*                                                                         *)
(* Three driver scripts share one engine design:                           *)
(*   voice.py   local microphone, single response templates                *)
(*   voice2.py  local microphone or (IS_CLOUD) text box, template pools    *)
(*   voice3.py  live chunk capture, its own copy of the engine             *)
(*                                                                         *)
(* Python strings are TLA+ strings; `x in s` is Contains(x, s); the        *)
(* regular expressions of extract_info are matched character by character. *)
(* Python None is the value None; the optional bool user_data['confirmed'] *)
(* takes the values None, "True", "False".                                 *)
(***************************************************************************)
EXTENDS Integers, Sequences, FiniteSets, TLC

VARIABLES
    script,             \* which driver script runs: "voice.py", "voice2.py", "voice3.py"
    IS_CLOUD,           \* voice2.py: STREAMLIT_SERVER_HEADLESS == "1"
    messages,           \* st.session_state.messages
    user_data,          \* st.session_state.user_data
    conversation_active,
    conversation_ended,
    greeted,
    waiting_for_input,
    retry_count,
    last_question_type,
    user_input,         \* the input of the last script run (None when none was read)
    response,           \* the value get_response returned in the last script run
    event,              \* the handler the last script run executed
    tts_ok,             \* whether the speech synthesis backend worked in the last run that listened or greeted
    logs,               \* st.session_state.logs, each entry named by the number of its add_log call
    log_calls           \* the add_log calls made so far

vars == <<script, IS_CLOUD, messages, user_data, conversation_active,
          conversation_ended, greeted, waiting_for_input, retry_count,
          last_question_type, user_input, response, event, tts_ok, logs, log_calls>>

None == "None"

\* Python truthiness of an optional string: None and "" are falsy.
Falsy(v) == v = None \/ v = ""

-----------------------------------------------------------------------------
(* Characters and strings *)

UpperAlpha == "ABCDEFGHIJKLMNOPQRSTUVWXYZ"
LowerAlpha == "abcdefghijklmnopqrstuvwxyz"
Digits == "0123456789"

CharAt(s, i) == SubSeq(s, i, i)

Chars(s) == {CharAt(s, i) : i \in 1..Len(s)}

UpperLetters == Chars(UpperAlpha)
LowerLetters == Chars(LowerAlpha)
\* \d of the re module
DigitChars == Chars(Digits)
\* \s of the re module
SpaceChars == {" ", "\t", "\n", "\r"}
\* \w of the re module
WordChars == UpperLetters \cup LowerLetters \cup DigitChars \cup {"_"}

IndexIn(c, alphabet) == CHOOSE i \in 1..Len(alphabet) : CharAt(alphabet, i) = c

LowerChar(c) == IF c \in UpperLetters THEN CharAt(LowerAlpha, IndexIn(c, UpperAlpha)) ELSE c
UpperChar(c) == IF c \in LowerLetters THEN CharAt(UpperAlpha, IndexIn(c, LowerAlpha)) ELSE c

RECURSIVE Lower(_)
\* str.lower()
Lower(s) == IF s = "" THEN "" ELSE LowerChar(Head(s)) \o Lower(Tail(s))

RECURSIVE TitleFrom(_, _)
TitleFrom(s, prevCased) ==
    IF s = "" THEN ""
    ELSE (IF prevCased THEN LowerChar(Head(s)) ELSE UpperChar(Head(s)))
            \o TitleFrom(Tail(s), Head(s) \in UpperLetters \cup LowerLetters)

\* str.title(): the first letter of every run of letters in upper case, the rest lower
Title(s) == TitleFrom(s, FALSE)

RECURSIVE RStrip(_)
RStrip(s) ==
    IF s # "" /\ CharAt(s, Len(s)) \in SpaceChars THEN RStrip(SubSeq(s, 1, Len(s) - 1)) ELSE s

RECURSIVE Strip(_)
\* str.strip()
Strip(s) == IF s # "" /\ Head(s) \in SpaceChars THEN Strip(Tail(s)) ELSE RStrip(s)

\* `x in s` for strings
Contains(x, s) ==
    \E i \in 1..(Len(s) - Len(x) + 1) : SubSeq(s, i, i + Len(x) - 1) = x

\* any(word in s for word in words)
AnyIn(words, s) == \E k \in 1..Len(words) : Contains(words[k], s)

RECURSIVE ParseInt(_, _)
ParseInt(s, acc) ==
    IF s = "" THEN acc
    ELSE ParseInt(Tail(s), acc * 10 + (IndexIn(Head(s), Digits) - 1))
\* int() of a string of decimal digits
Int_(s) == ParseInt(s, 0)

-----------------------------------------------------------------------------
(* Regular expressions of extract_info *)

IsWordAt(s, i) == i >= 1 /\ i <= Len(s) /\ CharAt(s, i) \in WordChars

\* \b before position i (between the characters i-1 and i)
Boundary(s, i) == IsWordAt(s, i - 1) # IsWordAt(s, i)

StartsAt(s, i, w) == i + Len(w) - 1 <= Len(s) /\ SubSeq(s, i, i + Len(w) - 1) = w

RECURSIVE SkipDigits(_, _)
\* first position at or after i that holds no digit: the end of a greedy \d+
SkipDigits(s, i) ==
    IF i <= Len(s) /\ CharAt(s, i) \in DigitChars THEN SkipDigits(s, i + 1) ELSE i

RECURSIVE SkipSpaces(_, _)
\* the end of a greedy \s*
SkipSpaces(s, i) ==
    IF i <= Len(s) /\ CharAt(s, i) \in SpaceChars THEN SkipSpaces(s, i + 1) ELSE i

\* \b(\d+)\s*(?:w1|w2|...)\b matches with its digits starting at position i
NumberThenWordAt(s, i, words) ==
    /\ Boundary(s, i)
    /\ i <= Len(s) /\ CharAt(s, i) \in DigitChars
    /\ \E n \in 1..Len(words) :
           /\ StartsAt(s, SkipSpaces(s, SkipDigits(s, i)), words[n])
           /\ Boundary(s, SkipSpaces(s, SkipDigits(s, i)) + Len(words[n]))

\* \b(?:w1|w2|...)\s*(\d+)\b matches with its digits starting at position k
WordThenNumberAt(s, k, words) ==
    /\ k <= Len(s) /\ CharAt(s, k) \in DigitChars
    /\ Boundary(s, SkipDigits(s, k))
    /\ \E n \in 1..Len(words) : \E i \in 1..k :
           /\ Boundary(s, i)
           /\ StartsAt(s, i, words[n])
           /\ SkipSpaces(s, i + Len(words[n])) = k

Min(S) == CHOOSE m \in S : \A n \in S : m <= n

\* the digits of the leftmost match, "" when findall returns []
FirstCapture(s, hits) ==
    IF hits = {} THEN "" ELSE SubSeq(s, Min(hits), SkipDigits(s, Min(hits)) - 1)

\* re.findall(r'\b(\d+)\s*(?:...)\b', s)[0]
FindNumberThenWord(s, words) ==
    FirstCapture(s, {i \in 1..Len(s) : NumberThenWordAt(s, i, words)})

\* re.findall(r'\b(?:...)\s*(\d+)\b', s)[0]
FindWordThenNumber(s, words) ==
    FirstCapture(s, {k \in 1..Len(s) : WordThenNumberAt(s, k, words)})

-----------------------------------------------------------------------------
(* Keyword tables of voice2.py *)

destinations ==
    <<
      [name |-> "paris", patterns |-> <<"paris", "france", "eiffel", "french capital", "city of lights">>],
      [name |-> "london", patterns |-> <<"london", "uk", "england", "britain", "big ben", "british">>],
      [name |-> "tokyo", patterns |-> <<"tokyo", "japan", "japanese capital">>],
      [name |-> "new york", patterns |-> <<"new york", "nyc", "manhattan", "ny city">>],
      [name |-> "dubai", patterns |-> <<"dubai", "uae", "emirates", "burj">>],
      [name |-> "bali", patterns |-> <<"bali", "indonesia", "balinese">>],
      [name |-> "maldives", patterns |-> <<"maldives", "maldive", "male">>],
      [name |-> "switzerland", patterns |-> <<"switzerland", "swiss", "zurich", "geneva">>],
      [name |-> "italy", patterns |-> <<"italy", "italian", "rome", "venice", "florence", "milan">>],
      [name |-> "spain", patterns |-> <<"spain", "spanish", "madrid", "barcelona">>],
      [name |-> "greece", patterns |-> <<"greece", "greek", "athens", "santorini", "mykonos">>],
      [name |-> "thailand", patterns |-> <<"thailand", "bangkok", "phuket", "thai">>],
      [name |-> "singapore", patterns |-> <<"singapore", "singapura">>],
      [name |-> "australia", patterns |-> <<"australia", "sydney", "melbourne", "aussie">>],
      [name |-> "india", patterns |-> <<"india", "goa", "kerala", "rajasthan", "delhi", "mumbai", "jaipur">>],
      [name |-> "mexico", patterns |-> <<"mexico", "cancun", "mexican">>],
      [name |-> "canada", patterns |-> <<"canada", "toronto", "vancouver", "canadian">>],
      [name |-> "iceland", patterns |-> <<"iceland", "reykjavik", "icelandic">>],
      [name |-> "norway", patterns |-> <<"norway", "oslo", "norwegian">>],
      [name |-> "hawaii", patterns |-> <<"hawaii", "honolulu", "maui", "hawaiian">>],
      [name |-> "turkey", patterns |-> <<"turkey", "istanbul", "turkish">>],
      [name |-> "egypt", patterns |-> <<"egypt", "cairo", "pyramids", "egyptian">>],
      [name |-> "vietnam", patterns |-> <<"vietnam", "hanoi", "vietnamese">>],
      [name |-> "peru", patterns |-> <<"peru", "machu picchu", "peruvian">>],
      [name |-> "portugal", patterns |-> <<"portugal", "lisbon", "portuguese">>],
      [name |-> "amsterdam", patterns |-> <<"amsterdam", "netherlands", "dutch">>],
      [name |-> "brazil", patterns |-> <<"brazil", "rio", "brazilian">>],
      [name |-> "austria", patterns |-> <<"austria", "vienna", "austrian">>],
      [name |-> "germany", patterns |-> <<"germany", "berlin", "munich", "german">>],
      [name |-> "croatia", patterns |-> <<"croatia", "dubrovnik", "croatian">>]
    >>

\* the word alternatives of the four numeric patterns, in listed order
pattern1_words ==
    <<"people", "person", "persons", "travelers", "travellers", "pax",
      "passenger", "passengers">>
pattern2_words == <<"party of", "group of", "team of">>
pattern3_words == <<"adult", "adults", "kid", "kids", "children", "members">>
pattern4_words == <<"we are", "there are", "will be">>

solo ==
    <<"solo", "alone", "myself", "just me", "by myself", "single", "only me",
      "one person">>
couple ==
    <<"couple", "two of us", "my partner", "wife", "husband", "girlfriend",
      "boyfriend", "spouse", "fiance", "with my", "me and my">>
family == <<"family", "kids", "children", "son", "daughter", "parents">>
friends == <<"friends", "buddies", "group", "gang", "crew">>

luxury ==
    <<"luxury", "premium", "high-end", "lavish", "expensive", "best",
      "five star", "5 star", "upscale", "deluxe", "first class", "splurge">>
moderate ==
    <<"moderate", "reasonable", "average", "standard", "mid-range", "medium",
      "comfortable", "decent", "middle", "normal">>
budget ==
    <<"budget", "cheap", "affordable", "economical", "low cost",
      "inexpensive", "frugal", "backpacker", "save money", "tight budget">>

confirm_yes ==
    <<"yes", "yeah", "yep", "sure", "definitely", "absolutely", "of course",
      "sounds good", "perfect", "great", "let's do it", "interested",
      "proceed", "book", "okay", "ok", "sounds great", "let's go", "i'm in",
      "count me in", "sign me up", "go ahead", "affirmative">>
confirm_no ==
    <<"no", "nah", "nope", "not interested", "maybe later", "not sure",
      "let me think", "not now", "cancel", "not really", "i'll pass",
      "not yet", "hold on", "negative">>

(* Keyword tables of voice.py *)

voice_destinations ==
    <<"paris", "london", "tokyo", "new york", "dubai", "bali", "maldives",
      "switzerland", "italy", "spain", "greece", "thailand", "singapore",
      "australia", "japan", "india", "mexico", "canada", "brazil", "egypt",
      "amsterdam", "iceland", "norway", "hawaii", "miami", "los angeles",
      "turkey", "portugal", "austria", "germany", "france", "croatia",
      "sweden", "denmark", "bali", "phuket", "goa", "kerala", "rome",
      "barcelona", "prague", "vietnam", "cambodia", "peru", "china">>
voice_number_words == <<"people", "person", "travelers", "travellers", "pax", "of us">>
voice_solo == <<"solo", "alone", "myself", "just me">>
voice_couple ==
    <<"couple", "two of us", "my partner", "my wife", "my husband",
      "girlfriend", "boyfriend">>
voice_luxury == <<"luxury", "premium", "high-end", "lavish", "expensive", "best">>
voice_moderate ==
    <<"moderate", "reasonable", "average", "standard", "mid-range", "medium">>
voice_budget == <<"budget", "cheap", "affordable", "economical", "low cost">>
voice_confirm_yes ==
    <<"yes", "yeah", "sure", "definitely", "absolutely", "of course",
      "sounds good", "let's do it", "interested", "proceed", "book", "yep",
      "ok", "okay">>
voice_confirm_no ==
    <<"no", "nah", "not interested", "maybe later", "not sure",
      "let me think", "not now", "cancel", "nope">>

-----------------------------------------------------------------------------
(* extract_info *)

EmptyUserData ==
    [destination |-> None, travelers |-> None, budget |-> None,
     interests |-> <<>>, confirmed |-> None]

MinOrZero(hits) == IF hits = {} THEN 0 ELSE Min(hits)

FirstDestination_LastInTable(lower) ==
    LET hits == {k \in 1..Len(destinations) : AnyIn(destinations[k].patterns, lower)}
    IN IF hits = {} THEN 0 ELSE CHOOSE k \in hits : \A j \in hits : j <= k

\* voice2.py "Check destinations": index of the first table entry with a
\* pattern in the utterance, 0 when there is none
FirstDestination(lower) ==
    MinOrZero({k \in 1..Len(destinations) : AnyIn(destinations[k].patterns, lower)})

FirstNonEmpty(n1, n2, n3, n4) ==
    IF n1 # "" THEN n1 ELSE IF n2 # "" THEN n2 ELSE IF n3 # "" THEN n3 ELSE n4

\* voice2.py "Enhanced number extraction": numbers[0] of the first of the four
\* patterns with a match, "" when no pattern matches
FirstNumber(lower) ==
    FirstNonEmpty(FindNumberThenWord(lower, pattern1_words),
                  FindWordThenNumber(lower, pattern2_words),
                  FindNumberThenWord(lower, pattern3_words),
                  FindWordThenNumber(lower, pattern4_words))

\* voice2.py "Solo/couple/family/group patterns": the if/elif chain over the keyword sets
GroupLabel(lower) ==
    IF AnyIn(solo, lower) THEN "1 person (Solo)"
    ELSE IF AnyIn(couple, lower) THEN "2 people (Couple)"
    ELSE IF AnyIn(family, lower) THEN "Family group"
    ELSE IF AnyIn(friends, lower) THEN "Friends group"
    ELSE None

BudgetLabel_BudgetFirst(lower) ==
    IF AnyIn(budget, lower) THEN "Budget-friendly"
    ELSE IF AnyIn(moderate, lower) THEN "Moderate"
    ELSE IF AnyIn(luxury, lower) THEN "Luxury"
    ELSE None

\* voice2.py "Enhanced budget extraction": the if/elif chain over the keyword sets
BudgetLabel(lower) ==
    IF AnyIn(luxury, lower) THEN "Luxury"
    ELSE IF AnyIn(moderate, lower) THEN "Moderate"
    ELSE IF AnyIn(budget, lower) THEN "Budget-friendly"
    ELSE None

classify_confirmation_NoFirst(lower) ==
    IF AnyIn(confirm_no, lower) THEN "No"
    ELSE IF AnyIn(confirm_yes, lower) THEN "Yes"
    ELSE "Neither"

classify_confirmation_YesOnly(lower) ==
    IF AnyIn(confirm_yes, lower) THEN "Yes" ELSE "Neither"

\* voice2.py get_response: the keyword tests of the confirmation stage
classify_confirmation(lower) ==
    IF AnyIn(confirm_yes, lower) THEN "Yes"
    ELSE IF AnyIn(confirm_no, lower) THEN "No"
    ELSE "Neither"

\* everything voice2.py reads off a lower-cased utterance
AnalyseLower(lower) ==
    [destination |-> FirstDestination(lower),
     number      |-> FirstNumber(lower),
     group       |-> GroupLabel(lower),
     budget      |-> BudgetLabel(lower),
     intent      |-> classify_confirmation(lower)]

\* user_input_lower = user_input.lower()
Analyse(input) == AnalyseLower(Lower(input))

\* voice.py "Extract destination": index of the first listed destination
\* contained in the utterance, 0 when there is none
voice_FirstDestination(lower) ==
    MinOrZero({k \in 1..Len(voice_destinations) : Contains(voice_destinations[k], lower)})

\* voice.py "Solo/couple/family"
voice_GroupLabel(lower) ==
    IF AnyIn(voice_solo, lower) THEN "1 (Solo)"
    ELSE IF AnyIn(voice_couple, lower) THEN "2 (Couple)"
    ELSE IF Contains("family", lower) THEN "Family group"
    ELSE None

\* voice.py "Extract budget"
voice_BudgetLabel(lower) ==
    IF AnyIn(voice_luxury, lower) THEN "Luxury"
    ELSE IF AnyIn(voice_moderate, lower) THEN "Moderate"
    ELSE IF AnyIn(voice_budget, lower) THEN "Budget-friendly"
    ELSE None

\* voice.py get_response: the keyword tests of the confirmation stage
voice_classify_confirmation(lower) ==
    IF AnyIn(voice_confirm_yes, lower) THEN "Yes"
    ELSE IF AnyIn(voice_confirm_no, lower) THEN "No"
    ELSE "Neither"

\* everything voice.py reads off a lower-cased utterance
voice_AnalyseLower(lower) ==
    [destination |-> voice_FirstDestination(lower),
     number      |-> FindNumberThenWord(lower, voice_number_words),
     group       |-> voice_GroupLabel(lower),
     budget      |-> voice_BudgetLabel(lower),
     intent      |-> voice_classify_confirmation(lower)]

\* user_input_lower = user_input.lower()
voice_Analyse(input) == voice_AnalyseLower(Lower(input))

-----------------------------------------------------------------------------
(* Bounds and inputs *)

\* longest transcript the session is followed to
MaxMessages == 5

\* what the speech recogniser or the text box can deliver
Utterances ==
    {"I want to go to Tokyo", "just me", "keep it cheap", "yes", "no thanks",
     "book a trip to Paris with my family", "luxury trip to Paris for 2 people",
     "hmm", "unclear"}

\* listen(): a recognised text, "unclear" (not decodable) or None (timeout, error)
ListenResults == Utterances \cup {None, "unclear"}

\* the text box of the cloud mode: any text, also an empty one
TextInputs == Utterances \cup {""}

\* direct calls of get_response
EngineInputs ==
    {None, "", "I want to go to Tokyo", "just me", "keep it cheap", "yes", "no thanks",
     "book a trip to Paris with my family", "not sure", "2 of us going to Paris",
     "cancel"}

\* the scripted conversation: the k-th user turn is drawn from ScenarioInputs[k]
ScenarioInputs ==
    << {"I want to go to Tokyo"}, {"just me"}, {"keep it cheap"}, {"yes", "no thanks"} >>

Scripts == {"voice.py", "voice2.py", "voice3.py"}

\* the utterances extract_info is applied to on its own
ExtractInputs ==
    {None, "", "just me", "book a trip to Paris with my family",
     "I want to visit Paris and also see the Eiffel Tower", "from Tokyo to London",
     "2 people traveling, just the couple of us", "we are 4 with 2 kids",
     "affordable luxury trip", "reasonable budget", "2 of us going to Paris",
     "1 person"}

\* the trips extract_info is applied to: every field empty or already stored
Trips ==
    {[EmptyUserData EXCEPT !.destination = d, !.travelers = t, !.budget = b] :
        d \in {None, "Tokyo"}, t \in {None, "4 people"}, b \in {None, "Moderate"}}

\* every text that reaches the engine
Texts ==
    {Strip(t) : t \in (Utterances \cup EngineInputs \cup ExtractInputs) \ {None}}
        \cup (Utterances \ {None})

-----------------------------------------------------------------------------
\* the analysis of every text of the model, computed once
Analysed == [input \in Texts |-> Analyse(input)]
voice_Analysed == [input \in Texts |-> voice_Analyse(input)]

\* what extract_info and get_response read off the utterance
Matches(input) == Analysed[input]
voice_Matches(input) == voice_Analysed[input]

ExtractDestination_Overwrites(m, data) ==
    IF m.destination > 0
    THEN [data EXCEPT !.destination = Title(destinations[m.destination].name)]
    ELSE data

ExtractDestination_NoTitle(m, data) ==
    IF Falsy(data.destination) /\ m.destination > 0
    THEN [data EXCEPT !.destination = destinations[m.destination].name]
    ELSE data

ExtractDestination_ForgetsOnMiss(m, data) ==
    IF m.destination = 0 THEN [data EXCEPT !.destination = None]
    ELSE IF Falsy(data.destination)
    THEN [data EXCEPT !.destination = Title(destinations[m.destination].name)]
    ELSE data

\* voice2.py: the destination is stored in title case when none is stored yet
ExtractDestination(m, data) ==
    IF Falsy(data.destination) /\ m.destination > 0
    THEN [data EXCEPT !.destination = Title(destinations[m.destination].name)]
    ELSE data

\* f"{count} {'person' if count == 1 else 'people'}"
FormatCount(count) == ToString(count) \o " " \o (IF count = 1 THEN "person" ELSE "people")

ExtractNumber_AddsToStored(m, data) ==
    IF m.number = "" THEN data
    ELSE IF Falsy(data.travelers)
    THEN [data EXCEPT !.travelers = FormatCount(Int_(m.number))]
    ELSE [data EXCEPT !.travelers = @ \o " and " \o FormatCount(Int_(m.number))]

\* voice2.py: count = int(numbers[0]) when no travelers are stored yet
ExtractNumber(m, data) ==
    IF Falsy(data.travelers) /\ m.number # ""
    THEN [data EXCEPT !.travelers = FormatCount(Int_(m.number))]
    ELSE data

ExtractGroup_Overrides(m, data) ==
    IF m.group # None THEN [data EXCEPT !.travelers = m.group] ELSE data

\* voice2.py: the categorical fallback, only when travelers is still empty
ExtractGroup(m, data) ==
    IF Falsy(data.travelers) /\ m.group # None
    THEN [data EXCEPT !.travelers = m.group]
    ELSE data

\* voice2.py: the budget, only when none is stored yet
ExtractBudget(m, data) ==
    IF Falsy(data.budget) /\ m.budget # None
    THEN [data EXCEPT !.budget = m.budget]
    ELSE data

\* extract_info of voice2.py; m is what the tables and patterns
\* match in the utterance
extract_info(input, m, data) ==
    IF Falsy(input) THEN data
    ELSE ExtractBudget(m, ExtractGroup(m, ExtractNumber(m, ExtractDestination(m, data))))

\* voice.py: for dest in destinations: if dest in user_input_lower: if not destination: set, break
voice_ExtractDestination(m, data) ==
    IF m.destination > 0 /\ Falsy(data.destination)
    THEN [data EXCEPT !.destination = Title(voice_destinations[m.destination])]
    ELSE data

\* voice.py: f"{numbers[0][0]} people", the digits kept as written
voice_ExtractNumber(m, data) ==
    IF m.number # "" /\ Falsy(data.travelers)
    THEN [data EXCEPT !.travelers = m.number \o " people"]
    ELSE data

\* voice.py: the categorical fallback, only when travelers is still empty
voice_ExtractGroup(m, data) ==
    IF Falsy(data.travelers) /\ m.group # None
    THEN [data EXCEPT !.travelers = m.group]
    ELSE data

\* voice.py: the budget, only when none is stored yet
voice_ExtractBudget(m, data) ==
    IF Falsy(data.budget) /\ m.budget # None
    THEN [data EXCEPT !.budget = m.budget]
    ELSE data

\* extract_info of voice.py
voice_extract_info(input, m, data) ==
    IF Falsy(input) THEN data
    ELSE voice_ExtractBudget(m,
             voice_ExtractGroup(m, voice_ExtractNumber(m, voice_ExtractDestination(m, data))))

-----------------------------------------------------------------------------
(* Response templates *)

\* voice2.py get_response: the acceptance endings
accept_endings(data) ==
    << "Amazing! I'm so excited for your " \o data.destination \o " adventure! One of our travel experts will call you within 24 hours with a personalized package. Get ready for an unforgettable trip!",
       "Fantastic! Your " \o data.destination \o " journey is going to be incredible! Expect a call from our specialist tomorrow with exclusive deals and insider tips. Thank you for choosing us!",
       "Wonderful! I can't wait for you to experience " \o data.destination \o "! Our team will reach out within a day with your custom itinerary. Safe travels ahead!" >>

\* voice2.py get_response: the decline endings
decline_endings ==
    << "No problem at all! Take your time thinking it over. We're here whenever you're ready. Have a great day!",
       "That's totally fine! Travel is a big decision. Feel free to reach out anytime. Thanks for chatting!",
       "Completely understand! Come back whenever you'd like to explore options. Wishing you well!" >>

destination_questions ==
    << "Where would you love to travel? Paris? Bali? Tokyo? Or somewhere else entirely?",
       "What's your dream destination? Beach paradise, mountain adventure, or city exploration?",
       "Tell me your ideal spot! European getaway, Asian adventure, or tropical escape?" >>

travelers_questions(data) ==
    << data.destination \o " is beautiful! Who's joining you? Traveling solo, with someone, or as a group?",
       "Great pick! " \o data.destination \o " is amazing! How many people are coming along?",
       "Love it! " \o data.destination \o " is perfect! Is this a solo trip, couple's getaway, or family vacation?" >>

budget_questions(data) ==
    << "Perfect! So " \o data.travelers \o " heading to " \o data.destination \o ". What's your budget style? Luxury, moderate, or budget-friendly?",
       "Awesome! " \o data.travelers \o " in " \o data.destination \o " sounds fun! Thinking premium experience or keeping it economical?",
       "Nice! " \o data.travelers \o " exploring " \o data.destination \o "! High-end luxury or comfortable mid-range?" >>

confirmations(data) ==
    << "Perfect! Let me confirm: " \o data.destination \o ", " \o data.travelers \o ", " \o data.budget \o " style. Sound right? Ready to book?",
       "Great! So that's " \o data.destination \o " for " \o data.travelers \o " with a " \o data.budget \o " budget. All good? Should we proceed?",
       "Excellent! " \o data.destination \o ", " \o data.travelers \o ", " \o data.budget \o " experience. Does that work? Shall I connect you with our expert?" >>

follow_ups ==
    << "Could you share more details?",
       "Tell me a bit more about that!",
       "Interesting! What else should I know?",
       "Got it! Anything else to add?" >>

greetings ==
    << "Hey! Welcome to our travel agency! I'm your AI travel buddy, and I'm super excited to help plan your next adventure! Let's chat about where you'd like to go!",
       "Hello there! Thanks for stopping by! I'm here to help you discover amazing destinations. Let's have a quick chat and find your perfect trip!",
       "Hi! Welcome! I'm your personal travel assistant, ready to help you plan something incredible! Let's talk about your dream vacation!" >>

unclear_prompts ==
    << "Sorry, didn't catch that. Could you repeat?",
       "I missed that. One more time please?",
       "Audio unclear. Try again?" >>
unclear_escalated == << "Please speak louder and clearer. I'm listening!" >>
silent_prompts ==
    << "Are you there? Please speak!",
       "I'm listening. Go ahead!",
       "Ready when you are!" >>
silent_escalated == << "Still here! Speak clearly when ready!" >>

(* voice.py: one template per slot *)

voice_accept(data) ==
    << "Fantastic! I'm so excited for your trip to " \o data.destination \o "! \n            \nOur travel expert will contact you within 24 hours with a personalized package including the best hotels, activities, and experiences tailored just for you!\n\nThank you so much for choosing our travel agency. Have a wonderful day and get ready for an amazing adventure!" >>

voice_decline ==
    << "No problem at all! I completely understand. Travel is a big decision. \n\nIf you'd like to explore different options or have any questions in the future, feel free to reach out anytime. We're always here to help!\n\nThank you for your time, and have a great day!" >>

voice_destination_question ==
    << "So, where would you love to travel? You can tell me any destination like Paris, Bali, Tokyo, New York, or anywhere else you're dreaming about!" >>

voice_travelers_question(data) ==
    << "Great choice! " \o data.destination \o " is absolutely stunning! Now, who's going on this adventure with you? Is it just you traveling solo, or are you going with your partner, family, or friends?" >>

voice_budget_question(data) ==
    << "Perfect! So " \o data.travelers \o " will be exploring " \o data.destination \o ". That sounds amazing!\n\nNow let's talk about your budget. Are you looking for a luxury experience, a comfortable mid-range trip, or a budget-friendly adventure?" >>

voice_confirmation(data) ==
    << "Wonderful! Let me confirm everything:\n\nYou want to visit " \o data.destination \o " with " \o data.travelers \o ", and you're looking for a " \o data.budget \o " experience.\n\nThis is going to be an incredible trip! I can create a customized package with handpicked accommodations, amazing activities, and local insider tips.\n\nSo, are you ready to move forward? Should I have our travel expert prepare your personalized vacation package? Just say yes or no." >>

voice_follow_up ==
    << "Tell me more about what you're thinking! I'm here to help create your perfect vacation." >>

voice_greeting ==
    << "Hello! Welcome to our travel agency! I'm your personal travel assistant, and I'm so excited to help you plan an unforgettable trip today!\n\nLet's have a chat about your dream vacation. I'll ask you a few questions to understand what you're looking for, and then we'll see if we can create the perfect travel package for you." >>

voice_unclear_prompt == << "Sorry, I couldn't hear you clearly. Could you please repeat that?" >>
voice_silent_prompt == << "I didn't hear anything. Are you still there? Please speak again." >>

-----------------------------------------------------------------------------
(* get_response *)

\* the session fields get_response reads and writes
Session(data, ended, active, lqt) ==
    [user_data |-> data, conversation_ended |-> ended,
     conversation_active |-> active, last_question_type |-> lqt]

\* the guard of the confirmation stage
ConfirmationStage(data) ==
    ~Falsy(data.destination) /\ ~Falsy(data.travelers) /\ data.confirmed = None

Asks(s, type, pool) == [session |-> [s EXCEPT !.last_question_type = type], pool |-> pool]

NextQuestion_NoSummary(s) ==
    IF Falsy(s.user_data.destination) THEN Asks(s, "destination", destination_questions)
    ELSE IF Falsy(s.user_data.travelers)
    THEN Asks(s, "travelers", travelers_questions(s.user_data))
    ELSE IF Falsy(s.user_data.budget) THEN Asks(s, "budget", budget_questions(s.user_data))
    ELSE [session |-> s, pool |-> follow_ups]

NextQuestion_BudgetFirst(s) ==
    IF Falsy(s.user_data.destination) THEN Asks(s, "destination", destination_questions)
    ELSE IF Falsy(s.user_data.budget) THEN Asks(s, "budget", budget_questions(s.user_data))
    ELSE IF Falsy(s.user_data.travelers)
    THEN Asks(s, "travelers", travelers_questions(s.user_data))
    ELSE IF s.user_data.confirmed = None
    THEN Asks(s, "confirmation", confirmations(s.user_data))
    ELSE [session |-> s, pool |-> follow_ups]

\* "Progressive questioning": the question for the first missing field
NextQuestion(s) ==
    IF Falsy(s.user_data.destination) THEN Asks(s, "destination", destination_questions)
    ELSE IF Falsy(s.user_data.travelers)
    THEN Asks(s, "travelers", travelers_questions(s.user_data))
    ELSE IF Falsy(s.user_data.budget) THEN Asks(s, "budget", budget_questions(s.user_data))
    ELSE IF ~Falsy(s.user_data.destination) /\ ~Falsy(s.user_data.travelers)
            /\ ~Falsy(s.user_data.budget) /\ s.user_data.confirmed = None
    THEN Asks(s, "confirmation", confirmations(s.user_data))
    ELSE [session |-> s, pool |-> follow_ups]

Intent_StrOfNone(input, m) ==
    IF input = None THEN classify_confirmation(Lower("None"))
    ELSE IF input = "" THEN classify_confirmation("")
    ELSE m.intent

\* user_input.lower() if user_input else "", and the keyword tests on it
Intent(input, m) == IF Falsy(input) THEN classify_confirmation("") ELSE m.intent

Confirm_ForgetsEnded(s, value) ==
    [s EXCEPT !.user_data.confirmed = value, !.conversation_active = FALSE]

Confirm_ForgetsConfirmed(s, value) ==
    [s EXCEPT !.conversation_ended = TRUE, !.conversation_active = FALSE]

\* the three assignments of a terminal branch of the confirmation stage
Confirm(s, value) ==
    [s EXCEPT !.user_data.confirmed = value,
              !.conversation_ended = TRUE,
              !.conversation_active = FALSE]

Respond_NeitherDeclines(intent, s) ==
    IF ConfirmationStage(s.user_data) /\ intent = "Yes"
    THEN [session |-> Confirm(s, "True"), pool |-> accept_endings(s.user_data)]
    ELSE IF ConfirmationStage(s.user_data)
    THEN [session |-> Confirm(s, "False"), pool |-> decline_endings]
    ELSE NextQuestion(s)

Respond_DeclineAccepts(intent, s) ==
    IF ConfirmationStage(s.user_data) /\ intent = "Yes"
    THEN [session |-> Confirm(s, "True"), pool |-> accept_endings(s.user_data)]
    ELSE IF ConfirmationStage(s.user_data) /\ intent = "No"
    THEN [session |-> Confirm(s, "False"), pool |-> accept_endings(s.user_data)]
    ELSE NextQuestion(s)

\* get_response after extract_info: the confirmation stage, then the questions
Respond(intent, s) ==
    IF ConfirmationStage(s.user_data) /\ intent = "Yes"
    THEN [session |-> Confirm(s, "True"), pool |-> accept_endings(s.user_data)]
    ELSE IF ConfirmationStage(s.user_data) /\ intent = "No"
    THEN [session |-> Confirm(s, "False"), pool |-> decline_endings]
    ELSE NextQuestion(s)

GetResponseWith(input, m, s) ==
    Respond(Intent(input, m), [s EXCEPT !.user_data = extract_info(input, m, @)])

\* get_response of voice2.py: the session after the call and the
\* pool random.choice draws the return value from
get_response(input, s) == GetResponseWith(input, Matches(input), s)

\* voice.py "Build conversation based on missing info"
voice_NextQuestion(s) ==
    IF Falsy(s.user_data.destination)
    THEN [session |-> s, pool |-> voice_destination_question]
    ELSE IF Falsy(s.user_data.travelers)
    THEN [session |-> s, pool |-> voice_travelers_question(s.user_data)]
    ELSE IF Falsy(s.user_data.budget)
    THEN [session |-> s, pool |-> voice_budget_question(s.user_data)]
    ELSE IF ~Falsy(s.user_data.destination) /\ ~Falsy(s.user_data.travelers)
            /\ ~Falsy(s.user_data.budget) /\ s.user_data.confirmed = None
    THEN [session |-> s, pool |-> voice_confirmation(s.user_data)]
    ELSE [session |-> s, pool |-> voice_follow_up]

\* voice.py: user_input.lower() if user_input else "", and the keyword tests on it
voice_Intent(input, m) == IF Falsy(input) THEN voice_classify_confirmation("") ELSE m.intent

\* voice.py: the three assignments of a terminal branch of the confirmation stage
voice_Confirm(s, value) ==
    [s EXCEPT !.user_data.confirmed = value,
              !.conversation_ended = TRUE,
              !.conversation_active = FALSE]

\* voice.py get_response after extract_info
voice_Respond(intent, s) ==
    IF ConfirmationStage(s.user_data) /\ intent = "Yes"
    THEN [session |-> voice_Confirm(s, "True"), pool |-> voice_accept(s.user_data)]
    ELSE IF ConfirmationStage(s.user_data) /\ intent = "No"
    THEN [session |-> voice_Confirm(s, "False"), pool |-> voice_decline]
    ELSE voice_NextQuestion(s)

voice_GetResponseWith(input, m, s) ==
    voice_Respond(voice_Intent(input, m),
                  [s EXCEPT !.user_data = voice_extract_info(input, m, @)])

\* get_response of voice.py
voice_get_response(input, s) == voice_GetResponseWith(input, voice_Matches(input), s)

-----------------------------------------------------------------------------
(* voice3.py: extract_info and get_response, its own tables and templates *)

voice3_destinations ==
    <<
      [name |-> "paris", patterns |-> <<"paris", "france", "eiffel", "french capital", "city of lights">>],
      [name |-> "london", patterns |-> <<"london", "uk", "england", "britain", "big ben", "british">>],
      [name |-> "tokyo", patterns |-> <<"tokyo", "japan", "japanese capital">>],
      [name |-> "new york", patterns |-> <<"new york", "nyc", "manhattan", "ny city">>],
      [name |-> "dubai", patterns |-> <<"dubai", "uae", "emirates", "burj">>],
      [name |-> "bali", patterns |-> <<"bali", "indonesia", "balinese">>],
      [name |-> "maldives", patterns |-> <<"maldives", "maldive", "male">>],
      [name |-> "switzerland", patterns |-> <<"switzerland", "swiss", "zurich", "geneva">>],
      [name |-> "italy", patterns |-> <<"italy", "italian", "rome", "venice", "florence", "milan">>],
      [name |-> "spain", patterns |-> <<"spain", "spanish", "madrid", "barcelona">>],
      [name |-> "greece", patterns |-> <<"greece", "greek", "athens", "santorini", "mykonos">>],
      [name |-> "thailand", patterns |-> <<"thailand", "bangkok", "phuket", "thai">>],
      [name |-> "singapore", patterns |-> <<"singapore", "singapura">>],
      [name |-> "australia", patterns |-> <<"australia", "sydney", "melbourne", "aussie">>],
      [name |-> "india", patterns |-> <<"india", "goa", "kerala", "rajasthan", "delhi", "mumbai", "jaipur">>],
      [name |-> "mexico", patterns |-> <<"mexico", "cancun", "mexican">>],
      [name |-> "canada", patterns |-> <<"canada", "toronto", "vancouver", "canadian">>],
      [name |-> "iceland", patterns |-> <<"iceland", "reykjavik", "icelandic">>],
      [name |-> "norway", patterns |-> <<"norway", "oslo", "norwegian">>],
      [name |-> "hawaii", patterns |-> <<"hawaii", "honolulu", "maui", "hawaiian">>],
      [name |-> "turkey", patterns |-> <<"turkey", "istanbul", "turkish">>],
      [name |-> "egypt", patterns |-> <<"egypt", "cairo", "pyramids", "egyptian">>],
      [name |-> "vietnam", patterns |-> <<"vietnam", "hanoi", "vietnamese">>],
      [name |-> "peru", patterns |-> <<"peru", "machu picchu", "peruvian">>],
      [name |-> "portugal", patterns |-> <<"portugal", "lisbon", "portuguese">>],
      [name |-> "amsterdam", patterns |-> <<"amsterdam", "netherlands", "dutch">>],
      [name |-> "brazil", patterns |-> <<"brazil", "rio", "brazilian">>],
      [name |-> "austria", patterns |-> <<"austria", "vienna", "austrian">>],
      [name |-> "germany", patterns |-> <<"germany", "berlin", "munich", "german">>],
      [name |-> "croatia", patterns |-> <<"croatia", "dubrovnik", "croatian">>]
    >>

\* the word alternatives of the four numeric patterns, in listed order
voice3_pattern1_words ==
    <<"people", "person", "persons", "travelers", "travellers", "pax",
      "passenger", "passengers">>

voice3_pattern2_words == <<"party of", "group of", "team of">>

voice3_pattern3_words == <<"adult", "adults", "kid", "kids", "children", "members">>

voice3_pattern4_words == <<"we are", "there are", "will be">>

voice3_solo ==
    <<"solo", "alone", "myself", "just me", "by myself", "single", "only me",
      "one person">>

voice3_couple ==
    <<"couple", "two of us", "my partner", "wife", "husband", "girlfriend",
      "boyfriend", "spouse", "fiance", "with my", "me and my">>

voice3_family == <<"family", "kids", "children", "son", "daughter", "parents">>

voice3_friends == <<"friends", "buddies", "group", "gang", "crew">>

voice3_luxury ==
    <<"luxury", "premium", "high-end", "lavish", "expensive", "best",
      "five star", "5 star", "upscale", "deluxe", "first class", "splurge">>

voice3_moderate ==
    <<"moderate", "reasonable", "average", "standard", "mid-range", "medium",
      "comfortable", "decent", "middle", "normal">>

voice3_budget ==
    <<"budget", "cheap", "affordable", "economical", "low cost",
      "inexpensive", "frugal", "backpacker", "save money", "tight budget">>

voice3_confirm_yes ==
    <<"yes", "yeah", "yep", "sure", "definitely", "absolutely", "of course",
      "sounds good", "perfect", "great", "let's do it", "interested",
      "proceed", "book", "okay", "ok", "sounds great", "let's go", "i'm in",
      "count me in", "sign me up", "go ahead", "affirmative">>

voice3_confirm_no ==
    <<"no", "nah", "nope", "not interested", "maybe later", "not sure",
      "let me think", "not now", "cancel", "not really", "i'll pass",
      "not yet", "hold on", "negative">>

\* voice3.py "Check destinations": index of the first table entry with a
\* pattern in the utterance, 0 when there is none
voice3_FirstDestination(lower) ==
    MinOrZero({k \in 1..Len(voice3_destinations) : AnyIn(voice3_destinations[k].patterns, lower)})

\* voice3.py "Enhanced number extraction": numbers[0] of the first of the four
\* patterns with a match, "" when no pattern matches
voice3_FirstNumber(lower) ==
    FirstNonEmpty(FindNumberThenWord(lower, voice3_pattern1_words),
                  FindWordThenNumber(lower, voice3_pattern2_words),
                  FindNumberThenWord(lower, voice3_pattern3_words),
                  FindWordThenNumber(lower, voice3_pattern4_words))

\* voice3.py "Solo/couple/family/group patterns": the if/elif chain over the keyword sets
voice3_GroupLabel(lower) ==
    IF AnyIn(voice3_solo, lower) THEN "1 person (Solo)"
    ELSE IF AnyIn(voice3_couple, lower) THEN "2 people (Couple)"
    ELSE IF AnyIn(voice3_family, lower) THEN "Family group"
    ELSE IF AnyIn(voice3_friends, lower) THEN "Friends group"
    ELSE None

\* voice3.py "Enhanced budget extraction": the if/elif chain over the keyword sets
voice3_BudgetLabel(lower) ==
    IF AnyIn(voice3_luxury, lower) THEN "Luxury"
    ELSE IF AnyIn(voice3_moderate, lower) THEN "Moderate"
    ELSE IF AnyIn(voice3_budget, lower) THEN "Budget-friendly"
    ELSE None

\* voice3.py get_response: the keyword tests of the confirmation stage
voice3_classify_confirmation(lower) ==
    IF AnyIn(voice3_confirm_yes, lower) THEN "Yes"
    ELSE IF AnyIn(voice3_confirm_no, lower) THEN "No"
    ELSE "Neither"

\* everything voice3.py reads off a lower-cased utterance
voice3_AnalyseLower(lower) ==
    [destination |-> voice3_FirstDestination(lower),
     number      |-> voice3_FirstNumber(lower),
     group       |-> voice3_GroupLabel(lower),
     budget      |-> voice3_BudgetLabel(lower),
     intent      |-> voice3_classify_confirmation(lower)]

\* user_input_lower = user_input.lower()
voice3_Analyse(input) == voice3_AnalyseLower(Lower(input))

\* the analysis of every text of the model, computed once
voice3_Analysed == [input \in Texts |-> voice3_Analyse(input)]

\* what extract_info and get_response read off the utterance
voice3_Matches(input) == voice3_Analysed[input]

\* voice3.py: the destination is stored in title case when none is stored yet
voice3_ExtractDestination(m, data) ==
    IF Falsy(data.destination) /\ m.destination > 0
    THEN [data EXCEPT !.destination = Title(voice3_destinations[m.destination].name)]
    ELSE data

\* f"{count} {'person' if count == 1 else 'people'}"
voice3_FormatCount(count) == ToString(count) \o " " \o (IF count = 1 THEN "person" ELSE "people")

\* voice3.py: count = int(numbers[0]) when no travelers are stored yet
voice3_ExtractNumber(m, data) ==
    IF Falsy(data.travelers) /\ m.number # ""
    THEN [data EXCEPT !.travelers = voice3_FormatCount(Int_(m.number))]
    ELSE data

\* voice3.py: the categorical fallback, only when travelers is still empty
voice3_ExtractGroup(m, data) ==
    IF Falsy(data.travelers) /\ m.group # None
    THEN [data EXCEPT !.travelers = m.group]
    ELSE data

\* voice3.py: the budget, only when none is stored yet
voice3_ExtractBudget(m, data) ==
    IF Falsy(data.budget) /\ m.budget # None
    THEN [data EXCEPT !.budget = m.budget]
    ELSE data

\* extract_info of voice3.py; m is what the tables and patterns
\* match in the utterance
voice3_extract_info(input, m, data) ==
    IF Falsy(input) THEN data
    ELSE voice3_ExtractBudget(m, voice3_ExtractGroup(m, voice3_ExtractNumber(m, voice3_ExtractDestination(m, data))))

\* voice3.py get_response: the acceptance endings
voice3_accept_endings(data) ==
    << "Amazing! I'm so excited for your " \o data.destination \o " adventure! One of our travel experts will call you within 24 hours with a personalized package. Get ready for an unforgettable trip!",
       "Fantastic! Your " \o data.destination \o " journey is going to be incredible! Expect a call from our specialist tomorrow with exclusive deals and insider tips. Thank you for choosing us!",
       "Wonderful! I can't wait for you to experience " \o data.destination \o "! Our team will reach out within a day with your custom itinerary. Safe travels ahead!" >>

\* voice3.py get_response: the decline endings
voice3_decline_endings ==
    << "No problem at all! Take your time thinking it over. We're here whenever you're ready. Have a great day!",
       "That's totally fine! Travel is a big decision. Feel free to reach out anytime. Thanks for chatting!",
       "Completely understand! Come back whenever you'd like to explore options. Wishing you well!" >>

voice3_destination_questions ==
    << "Where would you love to travel? Paris? Bali? Tokyo? Or somewhere else entirely?",
       "What's your dream destination? Beach paradise, mountain adventure, or city exploration?",
       "Tell me your ideal spot! European getaway, Asian adventure, or tropical escape?" >>

voice3_travelers_questions(data) ==
    << data.destination \o " is beautiful! Who's joining you? Traveling solo, with someone, or as a group?",
       "Great pick! " \o data.destination \o " is amazing! How many people are coming along?",
       "Love it! " \o data.destination \o " is perfect! Is this a solo trip, couple's getaway, or family vacation?" >>

voice3_budget_questions(data) ==
    << "Perfect! So " \o data.travelers \o " heading to " \o data.destination \o ". What's your budget style? Luxury, moderate, or budget-friendly?",
       "Awesome! " \o data.travelers \o " in " \o data.destination \o " sounds fun! Thinking premium experience or keeping it economical?",
       "Nice! " \o data.travelers \o " exploring " \o data.destination \o "! High-end luxury or comfortable mid-range?" >>

voice3_confirmations(data) ==
    << "Perfect! Let me confirm: " \o data.destination \o ", " \o data.travelers \o ", " \o data.budget \o " style. Sound right? Ready to book?",
       "Great! So that's " \o data.destination \o " for " \o data.travelers \o " with a " \o data.budget \o " budget. All good? Should we proceed?",
       "Excellent! " \o data.destination \o ", " \o data.travelers \o ", " \o data.budget \o " experience. Does that work? Shall I connect you with our expert?" >>

voice3_follow_ups ==
    << "Could you share more details?",
       "Tell me a bit more about that!",
       "Interesting! What else should I know?",
       "Got it! Anything else to add?" >>

\* the guard of the confirmation stage
voice3_ConfirmationStage(data) ==
    ~Falsy(data.destination) /\ ~Falsy(data.travelers) /\ data.confirmed = None

voice3_NextQuestion_KeepsType(s) ==
    IF Falsy(s.user_data.destination)
    THEN [session |-> s, pool |-> voice3_destination_questions]
    ELSE IF Falsy(s.user_data.travelers)
    THEN [session |-> s, pool |-> voice3_travelers_questions(s.user_data)]
    ELSE IF Falsy(s.user_data.budget)
    THEN [session |-> s, pool |-> voice3_budget_questions(s.user_data)]
    ELSE IF ~Falsy(s.user_data.destination) /\ ~Falsy(s.user_data.travelers)
            /\ ~Falsy(s.user_data.budget) /\ s.user_data.confirmed = None
    THEN [session |-> s, pool |-> voice3_confirmations(s.user_data)]
    ELSE [session |-> s, pool |-> voice3_follow_ups]

\* "Progressive questioning": the question for the first missing field
voice3_NextQuestion(s) ==
    IF Falsy(s.user_data.destination) THEN Asks(s, "destination", voice3_destination_questions)
    ELSE IF Falsy(s.user_data.travelers)
    THEN Asks(s, "travelers", voice3_travelers_questions(s.user_data))
    ELSE IF Falsy(s.user_data.budget) THEN Asks(s, "budget", voice3_budget_questions(s.user_data))
    ELSE IF ~Falsy(s.user_data.destination) /\ ~Falsy(s.user_data.travelers)
            /\ ~Falsy(s.user_data.budget) /\ s.user_data.confirmed = None
    THEN Asks(s, "confirmation", voice3_confirmations(s.user_data))
    ELSE [session |-> s, pool |-> voice3_follow_ups]

\* user_input.lower() if user_input else "", and the keyword tests on it
voice3_Intent(input, m) == IF Falsy(input) THEN voice3_classify_confirmation("") ELSE m.intent

\* the three assignments of a terminal branch of the confirmation stage
voice3_Confirm(s, value) ==
    [s EXCEPT !.user_data.confirmed = value,
              !.conversation_ended = TRUE,
              !.conversation_active = FALSE]

\* get_response after extract_info: the confirmation stage, then the questions
voice3_Respond(intent, s) ==
    IF voice3_ConfirmationStage(s.user_data) /\ intent = "Yes"
    THEN [session |-> voice3_Confirm(s, "True"), pool |-> voice3_accept_endings(s.user_data)]
    ELSE IF voice3_ConfirmationStage(s.user_data) /\ intent = "No"
    THEN [session |-> voice3_Confirm(s, "False"), pool |-> voice3_decline_endings]
    ELSE voice3_NextQuestion(s)

voice3_GetResponseWith(input, m, s) ==
    voice3_Respond(voice3_Intent(input, m), [s EXCEPT !.user_data = voice3_extract_info(input, m, @)])

\* get_response of voice3.py: the session after the call and the
\* pool random.choice draws the return value from
voice3_get_response(input, s) == voice3_GetResponseWith(input, voice3_Matches(input), s)

-----------------------------------------------------------------------------
\* the engine of the running script
Engine(file, input, s) ==
    IF file = "voice.py" THEN voice_get_response(input, s)
    ELSE IF file = "voice2.py" THEN get_response(input, s)
    ELSE voice3_get_response(input, s)

-----------------------------------------------------------------------------
(* Session state *)

Message(role, content) == [role |-> role, content |-> content]

UserTurns == Cardinality({k \in 1..Len(messages) : messages[k].role = "user"})

Init ==
    /\ script \in Scripts
    /\ IS_CLOUD \in (IF script = "voice2.py" THEN BOOLEAN ELSE {FALSE})
    /\ messages = <<>>
    /\ user_data = EmptyUserData
    /\ conversation_active = FALSE
    /\ conversation_ended = FALSE
    /\ greeted = FALSE
    /\ waiting_for_input = FALSE
    /\ retry_count = 0
    /\ last_question_type = None
    /\ user_input = None
    /\ response = None
    /\ event = "init"
    /\ tts_ok = TRUE
    /\ logs = <<>>
    /\ log_calls = 0

\* speak(text): the return value; every failure of the synthesis or of the
\* playback is caught inside, and on the cloud nothing is synthesised
speak(text, ok) == IF script = "voice2.py" /\ IS_CLOUD THEN TRUE ELSE ok

StartRun_GreetsTwice(ok) ==
    /\ ~conversation_active /\ ~conversation_ended
    /\ conversation_active' = TRUE
    /\ retry_count' = (IF script = "voice.py" THEN retry_count ELSE 0)
    /\ IF ~greeted
       THEN /\ \E greeting \in (IF script = "voice.py" THEN {voice_greeting[1]}
                                ELSE {greetings[k] : k \in 1..Len(greetings)}) :
                   /\ messages' = Append(Append(messages, Message("assistant", greeting)),
                                        Message("assistant", greeting))
                   /\ speak(greeting, ok) \in BOOLEAN
            /\ greeted' = TRUE
            /\ waiting_for_input' = TRUE
       ELSE UNCHANGED <<messages, greeted, waiting_for_input>>
    /\ user_input' = None
    /\ response' = None
    /\ event' = "start"
    /\ UNCHANGED <<script, IS_CLOUD, user_data, conversation_ended, last_question_type>>

StartRun_NeedsSpeech(ok) ==
    /\ ~conversation_active /\ ~conversation_ended
    /\ conversation_active' = TRUE
    /\ retry_count' = (IF script = "voice.py" THEN retry_count ELSE 0)
    /\ IF ~greeted
       THEN /\ \E greeting \in (IF script = "voice.py" THEN {voice_greeting[1]}
                                ELSE {greetings[k] : k \in 1..Len(greetings)}) :
                   /\ messages' = Append(messages, Message("assistant", greeting))
                   /\ speak(greeting, ok) \in BOOLEAN
            /\ greeted' = ok
            /\ waiting_for_input' = ok
       ELSE UNCHANGED <<messages, greeted, waiting_for_input>>
    /\ user_input' = None
    /\ response' = None
    /\ event' = "start"
    /\ UNCHANGED <<script, IS_CLOUD, user_data, conversation_ended, last_question_type>>

StartRun_IgnoresEnded(ok) ==
    /\ ~conversation_active
    /\ conversation_active' = TRUE
    /\ retry_count' = (IF script = "voice.py" THEN retry_count ELSE 0)
    /\ IF ~greeted
       THEN /\ \E greeting \in (IF script = "voice.py" THEN {voice_greeting[1]}
                                ELSE {greetings[k] : k \in 1..Len(greetings)}) :
                   /\ messages' = Append(messages, Message("assistant", greeting))
                   /\ speak(greeting, ok) \in BOOLEAN
            /\ greeted' = TRUE
            /\ waiting_for_input' = TRUE
       ELSE UNCHANGED <<messages, greeted, waiting_for_input>>
    /\ user_input' = None
    /\ response' = None
    /\ event' = "start"
    /\ UNCHANGED <<script, IS_CLOUD, user_data, conversation_ended, last_question_type>>

\* START CONVERSATION button, with speech synthesis working (ok) or failing
StartRun(ok) ==
    /\ ~conversation_active /\ ~conversation_ended
    /\ conversation_active' = TRUE
    /\ retry_count' = (IF script = "voice.py" THEN retry_count ELSE 0)
    /\ IF ~greeted
       THEN /\ \E greeting \in (IF script = "voice.py" THEN {voice_greeting[1]}
                                ELSE {greetings[k] : k \in 1..Len(greetings)}) :
                   /\ messages' = Append(messages, Message("assistant", greeting))
                   /\ speak(greeting, ok) \in BOOLEAN
            /\ greeted' = TRUE
            /\ waiting_for_input' = TRUE
       ELSE UNCHANGED <<messages, greeted, waiting_for_input>>
    /\ user_input' = None
    /\ response' = None
    /\ event' = "start"
    /\ UNCHANGED <<script, IS_CLOUD, user_data, conversation_ended, last_question_type>>

\* START CONVERSATION button
Start == \E ok \in BOOLEAN : StartRun(ok) /\ tts_ok' = ok /\ UNCHANGED <<logs, log_calls>>

\* the session get_response works on
CurrentSession ==
    Session(user_data, conversation_ended, conversation_active, last_question_type)

\* the session and the chosen return value of get_response, stored
Returned(r) ==
    /\ \E k \in 1..Len(r.pool) : response' = r.pool[k]
    /\ user_data' = r.session.user_data
    /\ conversation_ended' = r.session.conversation_ended
    /\ conversation_active' = r.session.conversation_active
    /\ last_question_type' = r.session.last_question_type

Exchange_AnswerFirst(text) ==
    /\ Returned(Engine(script, text, CurrentSession))
    /\ messages' = Append(Append(messages, Message("assistant", response')),
                          Message("user", text))
    /\ user_input' = text

\* the user turn, the call of get_response and the assistant turn
Exchange(text) ==
    /\ Returned(Engine(script, text, CurrentSession))
    /\ messages' = Append(Append(messages, Message("user", text)),
                          Message("assistant", response'))
    /\ user_input' = text

Reprompt_StopsWaiting(prompts, ok) ==
    /\ \E k \in 1..Len(prompts) :
          /\ speak(prompts[k], ok) \in BOOLEAN
          /\ messages' = Append(messages, Message("assistant", prompts[k]))
    /\ waiting_for_input' = FALSE
    /\ response' = None
    /\ UNCHANGED <<user_data, conversation_ended, conversation_active, last_question_type>>

Reprompt_Overwrites(prompts, ok) ==
    /\ \E k \in 1..Len(prompts) :
          /\ speak(prompts[k], ok) \in BOOLEAN
          /\ messages' = Append(SubSeq(messages, 1, Len(messages) - 1),
                              Message("assistant", prompts[k]))
    /\ waiting_for_input' = TRUE
    /\ response' = None
    /\ UNCHANGED <<user_data, conversation_ended, conversation_active, last_question_type>>

\* a re-prompt after a failed listen
Reprompt(prompts, ok) ==
    /\ \E k \in 1..Len(prompts) :
          /\ speak(prompts[k], ok) \in BOOLEAN
          /\ messages' = Append(messages, Message("assistant", prompts[k]))
    /\ waiting_for_input' = TRUE
    /\ response' = None
    /\ UNCHANGED <<user_data, conversation_ended, conversation_active, last_question_type>>

\* voice.py, auto-listen section: one run of the script with the result of listen()
voice_Listen(heard, ok) ==
    /\ user_input' = heard
    /\ IF ~Falsy(heard) /\ heard # "unclear"
       THEN /\ Exchange(heard)
            /\ speak(response', ok) \in BOOLEAN
            /\ waiting_for_input' = ~conversation_ended'
            /\ event' = "turn"
       ELSE IF heard = "unclear"
       THEN Reprompt(voice_unclear_prompt, ok) /\ event' = "unclear"
       ELSE Reprompt(voice_silent_prompt, ok) /\ event' = "silent"
    /\ UNCHANGED retry_count

voice2_Listen_KeepsCounting(heard, ok) ==
    /\ user_input' = heard
    /\ IF ~Falsy(heard) /\ heard # "unclear"
       THEN /\ retry_count' = 0
            /\ Exchange(heard)
            /\ speak(response', ok) \in BOOLEAN
            /\ waiting_for_input' = ~conversation_ended'
            /\ event' = "turn"
       ELSE IF heard = "unclear"
       THEN /\ retry_count' = retry_count + 1
            /\ Reprompt(IF retry_count + 1 <= 2 THEN unclear_prompts ELSE unclear_escalated, ok)
            /\ event' = "unclear"
       ELSE /\ retry_count' = retry_count + 1
            /\ Reprompt(IF retry_count + 1 <= 2 THEN silent_prompts ELSE silent_escalated, ok)
            /\ event' = "silent"

\* voice2.py, local branch: one run of the script with the result of listen()
voice2_Listen(heard, ok) ==
    /\ user_input' = heard
    /\ IF ~Falsy(heard) /\ heard # "unclear"
       THEN /\ retry_count' = 0
            /\ Exchange(heard)
            /\ speak(response', ok) \in BOOLEAN
            /\ waiting_for_input' = ~conversation_ended'
            /\ event' = "turn"
       ELSE IF heard = "unclear"
       THEN /\ retry_count' = (IF retry_count + 1 <= 2 THEN retry_count + 1 ELSE 0)
            /\ Reprompt(IF retry_count + 1 <= 2 THEN unclear_prompts ELSE unclear_escalated, ok)
            /\ event' = "unclear"
       ELSE /\ retry_count' = (IF retry_count + 1 <= 2 THEN retry_count + 1 ELSE 0)
            /\ Reprompt(IF retry_count + 1 <= 2 THEN silent_prompts ELSE silent_escalated, ok)
            /\ event' = "silent"

\* voice3.py: one run of the script with the result of listen_live()
voice3_Listen(heard, ok) ==
    /\ user_input' = heard
    /\ IF ~Falsy(heard) /\ ~Falsy(Strip(heard))
       THEN /\ retry_count' = 0
            /\ Exchange(heard)
            /\ speak(response', ok) \in BOOLEAN
            /\ waiting_for_input' = ~conversation_ended'
            /\ event' = "turn"
       ELSE /\ event' = "silent"
            /\ response' = None
            /\ UNCHANGED <<messages, user_data, conversation_ended, conversation_active,
                           last_question_type, waiting_for_input, retry_count>>

\* what listen() returns for a recognition result
ListenValue(file, heard) ==
    IF heard = None THEN None
    ELSE IF file = "voice.py" THEN heard
    ELSE IF file = "voice2.py" THEN Strip(heard)
    ELSE IF Strip(heard) = "" THEN None ELSE Strip(heard)

\* microphone input: the active branch of a local script while it waits for
\* input, with speech synthesis working (ok) or failing
TurnRun(heard, ok) ==
    /\ conversation_active /\ ~conversation_ended
    /\ waiting_for_input
    /\ ~IS_CLOUD
    /\ CASE script = "voice.py"  -> voice_Listen(ListenValue(script, heard), ok)
         [] script = "voice2.py" -> voice2_Listen(ListenValue(script, heard), ok)
         [] script = "voice3.py" -> voice3_Listen(ListenValue(script, heard), ok)
    /\ UNCHANGED <<script, IS_CLOUD, greeted>>

\* microphone input: one run of the active branch of a local script
Turn(heard) ==
    \E ok \in BOOLEAN : TurnRun(heard, ok) /\ tts_ok' = ok /\ UNCHANGED <<logs, log_calls>>

\* cloud_text_input: the Send button with the content of the text box
Send(user_text) ==
    /\ conversation_active /\ ~conversation_ended
    /\ waiting_for_input
    /\ IS_CLOUD
    /\ IF ~Falsy(user_text) /\ ~Falsy(Strip(user_text))
       THEN Exchange(Strip(user_text))
       ELSE /\ user_input' = user_text
            /\ response' = None
            /\ UNCHANGED <<messages, user_data, conversation_ended, conversation_active,
                           last_question_type>>
    /\ event' = "send"
    /\ UNCHANGED <<script, IS_CLOUD, greeted, waiting_for_input, retry_count, tts_ok,
                   logs, log_calls>>

\* every path of a local script that waits for input ends in st.rerun() before
\* the STOP button is created; the cloud text box returns to the caller
StopButtonRendered == ~waiting_for_input \/ IS_CLOUD

Stop_ClearsTranscript ==
    /\ conversation_active /\ ~conversation_ended
    /\ StopButtonRendered
    /\ conversation_active' = FALSE
    /\ conversation_ended' = TRUE
    /\ waiting_for_input' = FALSE
    /\ messages' = <<>>
    /\ user_input' = None
    /\ response' = None
    /\ event' = "stop"
    /\ UNCHANGED <<script, IS_CLOUD, user_data, greeted, retry_count, last_question_type,
                   tts_ok, logs, log_calls>>

\* STOP button
Stop ==
    /\ conversation_active /\ ~conversation_ended
    /\ StopButtonRendered
    /\ conversation_active' = FALSE
    /\ conversation_ended' = TRUE
    /\ waiting_for_input' = FALSE
    /\ user_input' = None
    /\ response' = None
    /\ event' = "stop"
    /\ UNCHANGED <<script, IS_CLOUD, messages, user_data, greeted, retry_count,
                   last_question_type, tts_ok,
                   logs, log_calls>>

Reset_KeepsGreeted ==
    /\ ~(~conversation_active /\ ~conversation_ended)
    /\ ~(conversation_active /\ ~conversation_ended)
    /\ conversation_ended
    /\ messages' = <<>>
    /\ user_data' = EmptyUserData
    /\ conversation_active' = FALSE
    /\ conversation_ended' = FALSE
    /\ waiting_for_input' = FALSE
    /\ retry_count' = (IF script = "voice.py" THEN retry_count ELSE 0)
    /\ user_input' = None
    /\ response' = None
    /\ event' = "reset"
    /\ UNCHANGED <<script, IS_CLOUD, greeted, last_question_type, tts_ok,
                   logs, log_calls>>

\* New Conversation button
Reset ==
    /\ ~(~conversation_active /\ ~conversation_ended)
    /\ ~(conversation_active /\ ~conversation_ended)
    /\ conversation_ended
    /\ messages' = <<>>
    /\ user_data' = EmptyUserData
    /\ conversation_active' = FALSE
    /\ conversation_ended' = FALSE
    /\ greeted' = FALSE
    /\ waiting_for_input' = FALSE
    /\ retry_count' = (IF script = "voice.py" THEN retry_count ELSE 0)
    /\ user_input' = None
    /\ response' = None
    /\ event' = "reset"
    /\ UNCHANGED <<script, IS_CLOUD, last_question_type, tts_ok,
                   logs, log_calls>>

\* a direct call of get_response(input), outside any driver
Call(input) ==
    /\ Returned(Engine(script, input, CurrentSession))
    /\ user_input' = input
    /\ event' = "call"
    /\ UNCHANGED <<script, IS_CLOUD, messages, greeted, waiting_for_input, retry_count,
                   tts_ok, logs, log_calls>>

Listen == \E heard \in ListenResults :
              /\ Len(messages) + (IF Falsy(heard) \/ heard = "unclear" THEN 1 ELSE 2) <= MaxMessages
              /\ Turn(heard)

TextInput == \E user_text \in TextInputs :
                 /\ Len(messages) + 2 <= MaxMessages
                 /\ Send(user_text)

Next == Start \/ Listen \/ TextInput \/ Stop \/ Reset

Spec == Init /\ [][Next]_vars

ScenarioListen == \E heard \in (IF UserTurns < Len(ScenarioInputs)
                                THEN ScenarioInputs[UserTurns + 1] ELSE {}) : Turn(heard)

ScenarioSend == \E user_text \in (IF UserTurns < Len(ScenarioInputs)
                                  THEN ScenarioInputs[UserTurns + 1] ELSE {}) : Send(user_text)

NextScenario == Start \/ ScenarioListen \/ ScenarioSend

SpecScenario == Init /\ [][NextScenario]_vars

DirectCall == \E input \in EngineInputs : Call(input)

NextEngine == Start \/ Stop \/ Reset \/ DirectCall

SpecEngine == Init /\ [][NextEngine]_vars

\* extract_info of the running script
ExtractInfo(file, input, data) ==
    IF file = "voice.py" THEN voice_extract_info(input, voice_Matches(input), data)
    ELSE IF file = "voice2.py" THEN extract_info(input, Matches(input), data)
    ELSE voice3_extract_info(input, voice3_Matches(input), data)

\* a session whose trip is partly filled, before extract_info is applied
InitExtract ==
    /\ script \in Scripts
    /\ IS_CLOUD = FALSE
    /\ messages = <<>>
    /\ user_data \in Trips
    /\ conversation_active = TRUE
    /\ conversation_ended = FALSE
    /\ greeted = TRUE
    /\ waiting_for_input = TRUE
    /\ retry_count = 0
    /\ last_question_type = None
    /\ user_input = None
    /\ response = None
    /\ event = "init"
    /\ tts_ok = TRUE
    /\ logs = <<>>
    /\ log_calls = 0

\* extract_info(input) on its own
Extract(input) ==
    /\ user_data' = ExtractInfo(script, input, user_data)
    /\ user_input' = input
    /\ event' = "extract"
    /\ UNCHANGED <<script, IS_CLOUD, messages, conversation_active, conversation_ended,
                   greeted, waiting_for_input, retry_count, last_question_type, response,
                   tts_ok, logs, log_calls>>

NextExtract == \E input \in ExtractInputs : Extract(input)

SpecExtract == InitExtract /\ [][NextExtract]_vars

-----------------------------------------------------------------------------
(* The log panel *)

\* The log is written through add_log and read only by the log panel: the
\* dialogue never depends on it.  The steps of the dialogue above are followed
\* without their log lines, and SpecLog follows the log on its own, one add_log
\* call or one press of Clear Logs per step.

\* add_log calls followed in SpecLog
MaxLogCalls == 205

voice_add_log_PopsLast(log, log_entry) ==
    IF Len(Append(log, log_entry)) > 50
    THEN SubSeq(Append(log, log_entry), 1, Len(log))
    ELSE Append(log, log_entry)

\* voice.py add_log: append, then pop(0) when more than 50 entries are held
voice_add_log(log, log_entry) ==
    IF Len(Append(log, log_entry)) > 50
    THEN Tail(Append(log, log_entry))
    ELSE Append(log, log_entry)

\* voice2.py add_log: append, then pop(0) when more than 200 entries are held
add_log(log, log_entry) ==
    IF Len(Append(log, log_entry)) > 200
    THEN Tail(Append(log, log_entry))
    ELSE Append(log, log_entry)

\* voice3.py add_log: append, then pop(0) when more than 50 entries are held
voice3_add_log(log, log_entry) ==
    IF Len(Append(log, log_entry)) > 50
    THEN Tail(Append(log, log_entry))
    ELSE Append(log, log_entry)

\* one call of add_log of the running script
AddLog ==
    /\ log_calls < MaxLogCalls
    /\ log_calls' = log_calls + 1
    /\ logs' = CASE script = "voice.py"  -> voice_add_log(logs, log_calls + 1)
                 [] script = "voice2.py" -> add_log(logs, log_calls + 1)
                 [] script = "voice3.py" -> voice3_add_log(logs, log_calls + 1)
    /\ event' = "add_log"
    /\ UNCHANGED <<script, IS_CLOUD, messages, user_data, conversation_active,
                   conversation_ended, greeted, waiting_for_input, retry_count,
                   last_question_type, user_input, response, tts_ok>>

\* Clear Logs button
ClearLogs ==
    /\ logs' = <<>>
    /\ event' = "clear_logs"
    /\ UNCHANGED <<script, IS_CLOUD, messages, user_data, conversation_active,
                   conversation_ended, greeted, waiting_for_input, retry_count,
                   last_question_type, user_input, response, tts_ok, log_calls>>

NextLog == AddLog \/ ClearLogs

SpecLog == Init /\ [][NextLog]_vars

-----------------------------------------------------------------------------
(* Vocabulary of the properties *)

AllSet(data) == ~Falsy(data.destination) /\ ~Falsy(data.travelers) /\ ~Falsy(data.budget)

InPool(text, pool) == \E k \in 1..Len(pool) : pool[k] = text

\* every value extract_info can store as a destination
CanonicalDestinations ==
    {Title(destinations[k].name) : k \in 1..Len(destinations)}
        \cup {Title(voice_destinations[k]) : k \in 1..Len(voice_destinations)}

AcceptanceMessages ==
    UNION {{accept_endings([destination |-> d])[k] : k \in 1..3}
               \cup {voice_accept([destination |-> d])[1]} : d \in CanonicalDestinations}

DeclineMessages == {decline_endings[k] : k \in 1..3} \cup {voice_decline[1]}

\* the question the dialogue owes for a trip: the first missing field in the
\* order destination, travelers, budget, then the summary
OwedQuestion(file, data) ==
    IF Falsy(data.destination)
    THEN (IF file = "voice.py" THEN voice_destination_question ELSE destination_questions)
    ELSE IF Falsy(data.travelers)
    THEN (IF file = "voice.py" THEN voice_travelers_question(data) ELSE travelers_questions(data))
    ELSE IF Falsy(data.budget)
    THEN (IF file = "voice.py" THEN voice_budget_question(data) ELSE budget_questions(data))
    ELSE (IF file = "voice.py" THEN voice_confirmation(data) ELSE confirmations(data))

HasPrefix(text, prefix) == Len(prefix) <= Len(text) /\ SubSeq(text, 1, Len(prefix)) = prefix

\* a summary/confirmation prompt, recognised by the fixed opening of its template
IsConfirmationPrompt(text) ==
    \/ HasPrefix(text, "Perfect! Let me confirm: ")
    \/ HasPrefix(text, "Great! So that's ")
    \/ HasPrefix(text, "Excellent! ")
    \/ HasPrefix(text, "Wonderful! Let me confirm everything:")

\* the last script run passed a user utterance to get_response
EngineRan == event \in {"turn", "send", "call"} /\ response # None

Tokyo1 == [EmptyUserData EXCEPT !.destination = "Tokyo"]
Tokyo2 == [Tokyo1 EXCEPT !.travelers = "1 person (Solo)"]
Tokyo3 == [Tokyo2 EXCEPT !.budget = "Budget-friendly"]

-----------------------------------------------------------------------------
(* Properties *)

\* C1  First-write-wins: between two resets a stored destination, travelers or
\* budget value is never changed by a later call, and confirmed, once True or
\* False, never changes.
C1_FirstWriteWins ==
    [][event' # "reset" =>
         /\ ~Falsy(user_data.destination) => user_data'.destination = user_data.destination
         /\ ~Falsy(user_data.travelers) => user_data'.travelers = user_data.travelers
         /\ ~Falsy(user_data.budget) => user_data'.budget = user_data.budget
         /\ user_data.confirmed # None => user_data'.confirmed = user_data.confirmed]_vars

\* a call whose utterance names Paris and a family while Tokyo and a solo
\* traveller are stored
C1_Witness ==
    /\ event = "call"
    /\ user_input = "book a trip to Paris with my family"
    /\ user_data.destination = "Tokyo"
    /\ user_data.travelers = "1 person (Solo)"

\* C2  A terminal state is reached only after the budget tier: confirmed being
\* True or False implies that destination, travelers and budget are all set.
C2_TerminalOnlyAfterBudget ==
    user_data.confirmed # None => AllSet(user_data)

\* C3  The scripted conversation "I want to go to Tokyo", "just me", "keep it
\* cheap", "yes" on voice2.py / voice3.py is answered by the travelers question,
\* the budget question, the confirmation summary and an acceptance message, ends
\* with the trip Tokyo / 1 person (Solo) / Budget-friendly confirmed, and is not
\* ended before the fourth input.
C3_Progression ==
    script # "voice.py" =>
        /\ Len(messages) >= 3 => InPool(messages[3].content, travelers_questions(Tokyo1))
        /\ Len(messages) >= 5 => InPool(messages[5].content, budget_questions(Tokyo2))
        /\ Len(messages) >= 7 => InPool(messages[7].content, confirmations(Tokyo3))
        /\ Len(messages) < 9 => ~conversation_ended /\ user_data.confirmed = None
        /\ (Len(messages) >= 9 /\ messages[8].content = "yes") =>
              /\ InPool(messages[9].content, accept_endings(Tokyo3))
              /\ conversation_ended
              /\ user_data = [Tokyo3 EXCEPT !.confirmed = "True"]

C3_Witness ==
    /\ script = "voice3.py"
    /\ Len(messages) = 9
    /\ messages[2].content = "I want to go to Tokyo"
    /\ messages[4].content = "just me"
    /\ messages[6].content = "keep it cheap"
    /\ messages[8].content = "yes"

\* C4  Decline path: after "I want to go to Tokyo", "just me", "keep it cheap"
\* the input "no thanks" sets confirmed to False and conversation_ended to True,
\* the response is a decline message and the transcript holds no acceptance
\* message.
C4_Decline ==
    (Len(messages) >= 9 /\ messages[8].content = "no thanks") =>
        /\ user_data.confirmed = "False"
        /\ conversation_ended
        /\ messages[9].content \in DeclineMessages
        /\ \A k \in 1..Len(messages) : messages[k].content \notin AcceptanceMessages

C4_Witness ==
    /\ script = "voice2.py"
    /\ Len(messages) = 9
    /\ messages[6].content = "keep it cheap"
    /\ messages[8].content = "no thanks"
    /\ response \in DeclineMessages

\* C5  confirmed being True or False implies conversation_ended and not
\* conversation_active; the step that sets confirmed is the step in which
\* conversation_ended becomes True; after it nothing but a reset happens.
C5_ConfirmedMeansEnded ==
    /\ [](user_data.confirmed # None => conversation_ended /\ ~conversation_active)
    /\ [][(user_data.confirmed = None /\ user_data'.confirmed # None)
              => (~conversation_ended /\ conversation_ended')]_vars
    /\ [][user_data.confirmed # None => event' = "reset"]_vars

C5_Witness ==
    /\ user_data.confirmed = "True"
    /\ event = "turn"
    /\ conversation_ended /\ ~conversation_active
    /\ AllSet(user_data)

\* C6  After every submitted user utterance, on the microphone path and on the
\* cloud text path, waiting_for_input is False exactly when the step was
\* terminal; waiting_for_input is never True in an ended session.
C6_WaitingIffNotTerminal ==
    /\ EngineRan => (waiting_for_input = ~conversation_ended)
    /\ conversation_ended => ~waiting_for_input

\* C7  For a None or empty utterance in a non-terminal state get_response
\* returns normally, changes neither the trip nor the ended/active flags and
\* returns the question for the first missing field (the confirmation prompt
\* when none is missing).
C7_EmptyInputReasks ==
    [][(event' = "call" /\ Falsy(user_input') /\ user_data.confirmed = None) =>
         /\ user_data' = user_data
         /\ conversation_ended' = conversation_ended
         /\ conversation_active' = conversation_active
         /\ InPool(response', OwedQuestion(script, user_data))]_vars

\* get_response(None) at the confirmation stage: the prompt is asked again
C7_Witness ==
    /\ event = "call"
    /\ user_input = None
    /\ ~Falsy(user_data.destination) /\ ~Falsy(user_data.travelers)
    /\ user_data.confirmed = None
    /\ InPool(response, OwedQuestion(script, user_data))

\* C8  Stop sets conversation_ended, clears conversation_active and leaves
\* confirmed undecided and destination, travelers, budget and the transcript
\* unchanged, in whatever state it is taken.
C8_StopFrame ==
    [][event' = "stop" =>
         /\ conversation_ended' /\ ~conversation_active'
         /\ user_data'.confirmed = None
         /\ user_data' = user_data
         /\ messages' = messages]_vars

\* stop taken with no field set
C8_Witness ==
    /\ event = "stop"
    /\ user_data = EmptyUserData
    /\ conversation_ended /\ ~conversation_active
    /\ Len(messages) = 1

\* C9  conversation_ended is True only through a step that set confirmed or
\* through stop: ended with confirmed undecided implies that stop was taken
\* since the last reset.
C9_EndedOnlyByConfirmOrStop ==
    /\ [](conversation_ended /\ user_data.confirmed = None => event = "stop")
    /\ [][(~conversation_ended /\ conversation_ended')
              => (event' = "stop" \/ (user_data.confirmed = None /\ user_data'.confirmed # None))]_vars

\* stop taken while the budget question is open
C9_Witness ==
    /\ event = "stop"
    /\ conversation_ended
    /\ user_data.confirmed = None
    /\ ~Falsy(user_data.travelers) /\ Falsy(user_data.budget)

\* C10  A step that is not terminal returns the question for the first missing
\* field of the trip after extraction, in the order destination, travelers,
\* budget; the summary/confirmation prompt is returned exactly when all three
\* fields are set and confirmed is undecided.
C10_NextQuestion ==
    (EngineRan /\ user_data.confirmed = None) =>
        /\ InPool(response, OwedQuestion(script, user_data))
        /\ IsConfirmationPrompt(response) <=> AllSet(user_data)

\* one utterance fills all three fields and the summary is returned
C10_Witness ==
    /\ EngineRan
    /\ user_input = "luxury trip to Paris for 2 people"
    /\ AllSet(user_data) /\ user_data.confirmed = None
    /\ IsConfirmationPrompt(response)

\* the lower-cased utterance holds a keyword of the affirmative set of the script
HasYes(file, input) ==
    AnyIn(IF file = "voice.py" THEN voice_confirm_yes ELSE confirm_yes, Lower(input))

\* the lower-cased utterance holds a keyword of the negative set of the script
HasNo(file, input) ==
    AnyIn(IF file = "voice.py" THEN voice_confirm_no ELSE confirm_no, Lower(input))

FollowUpMessages == {follow_ups[k] : k \in 1..Len(follow_ups)} \cup {voice_follow_up[1]}

\* C11  Ambiguous confirmation: with destination and travelers set (after the
\* extraction of the step) and confirmed undecided, an utterance that holds no
\* keyword of the affirmative and none of the negative set leaves confirmed
\* undecided and the session not ended, and with all three fields set the
\* response is the confirmation prompt again.
C11_AmbiguousReasks ==
    [][(/\ event' \in {"turn", "send"} /\ response' # None
        /\ user_data.confirmed = None
        /\ ~Falsy(user_data'.destination) /\ ~Falsy(user_data'.travelers)
        /\ ~HasYes(script, user_input') /\ ~HasNo(script, user_input')) =>
          /\ user_data'.confirmed = None
          /\ ~conversation_ended'
          /\ AllSet(user_data') =>
                /\ IsConfirmationPrompt(response')
                /\ InPool(response', OwedQuestion(script, user_data'))]_vars

\* "hmm" answers the summary and the summary is asked again
C11_Witness ==
    /\ event = "turn"
    /\ user_input = "hmm"
    /\ Len(messages) = 5
    /\ messages[2].content = "luxury trip to Paris for 2 people"
    /\ AllSet(user_data) /\ user_data.confirmed = None
    /\ ~conversation_ended
    /\ IsConfirmationPrompt(response)

\* C12  An acceptance message is returned in exactly the steps in which
\* confirmed changes from undecided to True, and it contains the stored
\* canonical destination; a decline message is returned in exactly the steps in
\* which confirmed changes to False; no other step returns either.
C12_EndingsOnlyOnDecision ==
    [][/\ (response' \in AcceptanceMessages)
            <=> (user_data.confirmed = None /\ user_data'.confirmed = "True")
       /\ (response' \in AcceptanceMessages) =>
            /\ user_data'.destination \in CanonicalDestinations
            /\ Contains(user_data'.destination, response')
       /\ (response' \in DeclineMessages)
            <=> (user_data.confirmed = None /\ user_data'.confirmed = "False")]_vars

\* "yes" to the summary of a Paris trip: an acceptance message naming Paris
C12_Witness ==
    /\ event \in {"turn", "send"}
    /\ user_input = "yes"
    /\ user_data.confirmed = "True"
    /\ user_data.destination = "Paris"
    /\ response \in AcceptanceMessages
    /\ Contains("Paris", response)

\* C13  Confirmation tie-break: when confirmation is pending and the lower-cased
\* utterance holds a keyword of the affirmative set and a keyword of the
\* negative set, confirmed is set to True, never to False.
C13_YesWins ==
    [][(/\ event' = "call" /\ ~Falsy(user_input')
        /\ ConfirmationStage(user_data)
        /\ HasYes(script, user_input') /\ HasNo(script, user_input')) =>
          user_data'.confirmed = "True"]_vars

\* "not sure" holds "sure" and "no": the trip is confirmed
C13_Witness ==
    /\ event = "call"
    /\ user_input = "not sure"
    /\ HasYes(script, user_input) /\ HasNo(script, user_input)
    /\ user_data.confirmed = "True"
    /\ conversation_ended

\* C14  The generic follow-up is unreachable: in no run of a session (start,
\* submitted utterances, failed listens, stop, reset) does get_response return
\* one of the generic follow-up messages.
C14_NoFollowUp ==
    /\ response \notin FollowUpMessages
    /\ \A k \in 1..Len(messages) : messages[k].content \notin FollowUpMessages

\* all three fields set and confirmed decided, the only trip the follow-up
\* branch answers: the session is ended and the answer was a decline message
C14_Witness ==
    /\ event \in {"turn", "send"}
    /\ AllSet(user_data)
    /\ user_data.confirmed = "False"
    /\ conversation_ended
    /\ response \in DeclineMessages

\* the utterances of ExtractInputs that extract_info reads
SpokenInputs == ExtractInputs \ {None, ""}

\* per script and utterance: the table entries with an alias in the lower-cased
\* utterance, and the budget and traveler keyword sets with a keyword in it
KeywordHits ==
    [file \in Scripts |-> [input \in SpokenInputs |->
        IF file = "voice.py"
        THEN [destinations |-> {k \in 1..Len(voice_destinations) :
                                   Contains(voice_destinations[k], Lower(input))},
              luxury   |-> AnyIn(voice_luxury, Lower(input)),
              moderate |-> AnyIn(voice_moderate, Lower(input)),
              budget   |-> AnyIn(voice_budget, Lower(input)),
              solo     |-> AnyIn(voice_solo, Lower(input)),
              couple   |-> AnyIn(voice_couple, Lower(input)),
              family   |-> Contains("family", Lower(input)),
              friends  |-> FALSE]
        ELSE [destinations |-> {k \in 1..Len(destinations) :
                                   AnyIn(destinations[k].patterns, Lower(input))},
              luxury   |-> AnyIn(luxury, Lower(input)),
              moderate |-> AnyIn(moderate, Lower(input)),
              budget   |-> AnyIn(budget, Lower(input)),
              solo     |-> AnyIn(solo, Lower(input)),
              couple   |-> AnyIn(couple, Lower(input)),
              family   |-> AnyIn(family, Lower(input)),
              friends  |-> AnyIn(friends, Lower(input))]]]

\* the title-cased canonical name of the k-th table entry of the script
CanonicalName(file, k) ==
    Title(IF file = "voice.py" THEN voice_destinations[k] ELSE destinations[k].name)

\* the digits the numeric patterns of the script capture in the utterance
CapturedNumber(file, input) ==
    IF file = "voice.py" THEN voice_Matches(input).number ELSE Matches(input).number

GroupLabels ==
    {"1 person (Solo)", "2 people (Couple)", "Family group", "Friends group",
     "1 (Solo)", "2 (Couple)"}

BudgetValues == {"Luxury", "Moderate", "Budget-friendly"}

\* extract_info has just been applied to a spoken utterance
Extracted == event = "extract" /\ ~Falsy(user_input)

\* C15  Idempotent extraction: for every utterance and every trip, applying
\* extract_info twice in a row yields the same destination, travelers and
\* budget as applying it once.
C15_Idempotent ==
    /\ [](\A input \in ExtractInputs :
            ExtractInfo(script, input, ExtractInfo(script, input, user_data))
                = ExtractInfo(script, input, user_data))
    /\ [][(event = "extract" /\ event' = "extract" /\ user_input' = user_input) =>
            /\ user_data'.destination = user_data.destination
            /\ user_data'.travelers = user_data.travelers
            /\ user_data'.budget = user_data.budget]_vars

\* an utterance with a number and a couple keyword has filled travelers
C15_Witness ==
    /\ Extracted
    /\ user_input = "2 people traveling, just the couple of us"
    /\ user_data.travelers = "2 people"
    /\ ExtractInfo(script, user_input, user_data) = user_data

\* C16  Destination priority: on a trip with empty destination, an utterance
\* with aliases of several canonical destinations stores the title-cased
\* canonical name that comes first in table order, wherever the aliases occur;
\* "I want to visit Paris and also see the Eiffel Tower" stores "Paris".
C16_DestinationPriority ==
    [][(/\ event' = "extract" /\ ~Falsy(user_input')
        /\ Falsy(user_data.destination)
        /\ KeywordHits[script][user_input'].destinations # {}) =>
          /\ user_data'.destination =
                CanonicalName(script, Min(KeywordHits[script][user_input'].destinations))
          /\ user_input' = "I want to visit Paris and also see the Eiffel Tower"
                => user_data'.destination = "Paris"]_vars

\* Tokyo is named first in the utterance, London comes first in the table
C16_Witness ==
    /\ Extracted
    /\ user_input = "from Tokyo to London"
    /\ Cardinality(KeywordHits[script][user_input].destinations) = 2
    /\ user_data.destination = "London"

\* C17  Numeric precedence over categorical: on a trip with empty travelers, an
\* utterance that matches a numeric pattern sets travelers from the captured
\* number and the solo/couple/family/friends keywords have no effect; "2 people
\* traveling, just the couple of us" sets travelers to "2 people".
C17_NumericPrecedence ==
    [][(/\ event' = "extract" /\ ~Falsy(user_input')
        /\ Falsy(user_data.travelers)
        /\ CapturedNumber(script, user_input') # "") =>
          /\ HasPrefix(user_data'.travelers,
                       ToString(Int_(CapturedNumber(script, user_input'))) \o " ")
          /\ user_data'.travelers \notin GroupLabels
          /\ user_input' = "2 people traveling, just the couple of us"
                => user_data'.travelers = "2 people"]_vars

\* the utterance holds both "2 people" and the keyword "couple"
C17_Witness ==
    /\ Extracted
    /\ script = "voice2.py"
    /\ user_input = "2 people traveling, just the couple of us"
    /\ Matches(user_input).group = "2 people (Couple)"
    /\ user_data.travelers = "2 people"

\* C18  Budget tie-break: on a trip with empty budget, an utterance with
\* keywords of several budget sets is resolved in the order luxury, moderate,
\* budget-friendly; "affordable luxury trip" sets budget to "Luxury"; budget
\* only ever is Luxury, Moderate or Budget-friendly.
C18_BudgetTieBreak ==
    /\ [](user_data.budget \in BudgetValues \cup {None})
    /\ [][(event' = "extract" /\ ~Falsy(user_input') /\ Falsy(user_data.budget)) =>
            /\ user_data'.budget =
                  (IF KeywordHits[script][user_input'].luxury THEN "Luxury"
                   ELSE IF KeywordHits[script][user_input'].moderate THEN "Moderate"
                   ELSE IF KeywordHits[script][user_input'].budget THEN "Budget-friendly"
                   ELSE user_data.budget)
            /\ user_input' = "affordable luxury trip" => user_data'.budget = "Luxury"]_vars

\* "affordable" is a budget keyword, "luxury" a luxury keyword
C18_Witness ==
    /\ Extracted
    /\ user_input = "affordable luxury trip"
    /\ KeywordHits[script][user_input].luxury /\ KeywordHits[script][user_input].budget
    /\ user_data.budget = "Luxury"

\* C19  One utterance can fill several fields: "2 of us going to Paris" on an
\* empty trip sets destination ("Paris") and travelers in that single step, and
\* the next question is the budget question.
C19_MultiFieldUtterance ==
    [][(/\ event' = "call"
        /\ user_input' = "2 of us going to Paris"
        /\ user_data = EmptyUserData) =>
          /\ user_data'.destination = "Paris"
          /\ ~Falsy(user_data'.travelers)
          /\ Falsy(user_data'.budget)
          /\ InPool(response', IF script = "voice.py"
                               THEN voice_budget_question(user_data')
                               ELSE budget_questions(user_data'))]_vars

\* C20  In every engine variant a numeric traveler match with captured integer
\* N stores travelers as "N person" when N = 1 and as "N people" otherwise.
C20_PersonOrPeople ==
    [][(/\ event' = "extract" /\ ~Falsy(user_input')
        /\ Falsy(user_data.travelers)
        /\ CapturedNumber(script, user_input') # "") =>
          user_data'.travelers =
              ToString(Int_(CapturedNumber(script, user_input')))
                  \o (IF Int_(CapturedNumber(script, user_input')) = 1
                      THEN " person" ELSE " people")]_vars

GreetingMessages == {greetings[k] : k \in 1..Len(greetings)} \cup {voice_greeting[1]}

\* the phrases of the negative keyword set of the script
NegativePhrases(file) ==
    IF file = "voice.py" THEN {voice_confirm_no[k] : k \in 1..Len(voice_confirm_no)}
    ELSE {confirm_no[k] : k \in 1..Len(confirm_no)}

IsPrefix(s, t) == Len(s) <= Len(t) /\ SubSeq(t, 1, Len(s)) = s

\* C21  Categorical traveler fallback: when no numeric pattern matches and
\* travelers is empty, the keyword sets are tried in the order solo, couple,
\* family, friends and the first set with a keyword present assigns its label
\* "1 person (Solo)", "2 people (Couple)", "Family group", "Friends group".
C21_CategoricalFallback ==
    [][(/\ event' = "extract" /\ ~Falsy(user_input')
        /\ Falsy(user_data.travelers)
        /\ CapturedNumber(script, user_input') = "") =>
          user_data'.travelers =
              (IF KeywordHits[script][user_input'].solo THEN "1 person (Solo)"
               ELSE IF KeywordHits[script][user_input'].couple THEN "2 people (Couple)"
               ELSE IF KeywordHits[script][user_input'].family THEN "Family group"
               ELSE IF KeywordHits[script][user_input'].friends THEN "Friends group"
               ELSE user_data.travelers)]_vars

\* C22  Reset returns the session to its construction-time value: the
\* transcript is empty, the trip unset, conversation_active, conversation_ended,
\* greeted and waiting_for_input False, retry_count and last_question_type at
\* their initial values.
C22_ResetRestoresInitial ==
    [][event' = "reset" =>
         /\ messages' = <<>>
         /\ user_data' = EmptyUserData
         /\ ~conversation_active' /\ ~conversation_ended'
         /\ ~greeted' /\ ~waiting_for_input'
         /\ retry_count' = 0
         /\ last_question_type' = None]_vars

\* C23  Start appends exactly one greeting turn to the empty transcript, sets
\* conversation_active and waiting_for_input and leaves the trip unset; a
\* transcript never holds more than one greeting.
C23_StartGreetsOnce ==
    /\ [][event' = "start" =>
            /\ messages = <<>>
            /\ Len(messages') = 1
            /\ messages'[1].role = "assistant"
            /\ messages'[1].content \in GreetingMessages
            /\ conversation_active' /\ waiting_for_input'
            /\ user_data' = EmptyUserData]_vars
    /\ [](Cardinality({k \in 1..Len(messages) :
                          messages[k].content \in GreetingMessages}) <= 1)

\* the second conversation of a session has been started
C23_Witness ==
    /\ event = "start"
    /\ last_question_type # None
    /\ Len(messages) = 1
    /\ messages[1].content \in GreetingMessages
    /\ conversation_active /\ waiting_for_input

\* C24  A failed transcription never changes the trip: destination, travelers,
\* budget and confirmed are unchanged, no user turn is appended, the engine is
\* not invoked, the session stays active and not ended and waiting_for_input is
\* True afterwards.
C24_FailedListenFrame ==
    [][event' \in {"unclear", "silent"} =>
         /\ user_data' = user_data
         /\ IsPrefix(messages, messages')
         /\ \A k \in (Len(messages) + 1)..Len(messages') : messages'[k].role = "assistant"
         /\ response' = None
         /\ last_question_type' = last_question_type
         /\ conversation_active' /\ ~conversation_ended'
         /\ waiting_for_input']_vars

\* a listen timed out while the travelers question was open
C24_Witness ==
    /\ event = "silent"
    /\ user_input = None
    /\ user_data.destination = "Tokyo" /\ Falsy(user_data.travelers)
    /\ conversation_active /\ ~conversation_ended /\ waiting_for_input

\* C25  Synthesis failure does not block progress: for every session state and
\* every input the resulting trip, transcript, waiting_for_input,
\* conversation_active and conversation_ended are the same whether speak()
\* succeeds or fails.
C25_SpeechFailureIrrelevant ==
    [][/\ StartRun(TRUE) <=> StartRun(FALSE)
       /\ \A heard \in ListenResults : TurnRun(heard, TRUE) <=> TurnRun(heard, FALSE)]_vars

\* an utterance was answered while the synthesis failed
C25_Witness ==
    /\ event = "turn"
    /\ ~tts_ok
    /\ Len(messages) = 3
    /\ messages[3].content = response
    /\ waiting_for_input /\ conversation_active

\* C26  The transcript is append-only between resets: every action other than
\* reset leaves the existing turns as a prefix of the new transcript.
C26_TranscriptAppendOnly ==
    [][event' # "reset" => IsPrefix(messages, messages')]_vars

\* a re-prompt was appended after a user turn and its answer
C26_Witness ==
    /\ event = "unclear"
    /\ Len(messages) = 4
    /\ messages[2].role = "user"
    /\ messages[4].role = "assistant"

\* C27  confirmed changes from undecided to True or False only in a step whose
\* immediately preceding system turn was the summary/confirmation prompt.
C27_DecisionOnlyAfterSummary ==
    [][(user_data.confirmed = None /\ user_data'.confirmed # None) =>
         /\ Len(messages) > 0
         /\ messages[Len(messages)].role = "assistant"
         /\ IsConfirmationPrompt(messages[Len(messages)].content)]_vars

\* C28  For every phrase of the negative keyword set, an utterance that is
\* exactly that phrase, submitted while confirmation is pending, sets confirmed
\* to False and returns a decline message.
C28_EveryNegativePhraseDeclines ==
    [][(/\ event' = "call"
        /\ user_input' \in NegativePhrases(script)
        /\ ConfirmationStage(user_data)) =>
          /\ user_data'.confirmed = "False"
          /\ response' \in DeclineMessages]_vars

\* C29  In every reachable state in which the session is active and not ended
\* the stop action is enabled.
C29_StopAlwaysEnabled ==
    (conversation_active /\ ~conversation_ended) => ENABLED Stop

\* C30  No stuck state: conversation_active and not conversation_ended implies
\* waiting_for_input.
C30_NoStuckState ==
    (conversation_active /\ ~conversation_ended) => waiting_for_input

\* the second conversation of a session is active and waits for input
C30_Witness ==
    /\ conversation_active /\ ~conversation_ended
    /\ waiting_for_input
    /\ last_question_type # None
    /\ Len(messages) = 1

-----------------------------------------------------------------------------
\* C31: once conversation_ended is True nothing but the New Conversation
\* button can act: START, STOP, the microphone run and the text box (the only
\* steps that append a turn, call get_response or change the trip) are all
\* disabled and reset is enabled; and reset is enabled only in an ended
\* session.
C31_EndedOnlyReset ==
    /\ conversation_ended =>
          /\ ~ENABLED Start
          /\ ~ENABLED Stop
          /\ ~ENABLED (\E heard \in ListenResults : Turn(heard))
          /\ ~ENABLED (\E user_text \in TextInputs : Send(user_text))
          /\ ENABLED Reset
    /\ (ENABLED Reset) => conversation_ended

\* an ended session reached through the dialogue, with its transcript
C31_Witness ==
    /\ conversation_ended
    /\ event \in {"turn", "send"}
    /\ Len(messages) >= 3

-----------------------------------------------------------------------------
\* the index of the first missing field: destination 0, travelers 1, budget 2,
\* none missing 3
Tier(data) ==
    IF Falsy(data.destination) THEN 0
    ELSE IF Falsy(data.travelers) THEN 1
    ELSE IF Falsy(data.budget) THEN 2
    ELSE 3

\* the questions that ask for the field of index q
QuestionPool(file, q, data) ==
    CASE q = 0 -> (IF file = "voice.py" THEN voice_destination_question
                   ELSE destination_questions)
      [] q = 1 -> (IF file = "voice.py" THEN voice_travelers_question(data)
                   ELSE travelers_questions(data))
      [] q = 2 -> (IF file = "voice.py" THEN voice_budget_question(data)
                   ELSE budget_questions(data))

\* C32: dialogue progress is monotonic: on every step that is not a reset the
\* index of the first missing field does not decrease, and a question that the
\* step returns asks for a field whose index is not below the index the step
\* started from, so a tier that has been passed is never asked again.
C32_ProgressMonotonic ==
    [][event' # "reset" =>
         /\ Tier(user_data') >= Tier(user_data)
         /\ \A q \in 0..2 :
               (response' # None /\ InPool(response', QuestionPool(script, q, user_data')))
                   => q >= Tier(user_data)]_vars

\* two tiers passed: the second utterance is answered by the budget question
C32_Witness ==
    /\ event \in {"turn", "send"}
    /\ Len(messages) = 5
    /\ Tier(user_data) = 2
    /\ InPool(response, QuestionPool(script, 2, user_data))

-----------------------------------------------------------------------------
\* some turn of the step's transcript beyond the old one is a user turn
AppendsUserTurn ==
    \E k \in 1..Len(messages') : k > Len(messages) /\ messages'[k].role = "user"

\* C33: transcript structure: a non-empty transcript starts with the greeting
\* of the assistant, every user turn is immediately followed by an assistant
\* turn (so no two user turns are consecutive and none is last), and a step
\* that adds a user turn adds exactly the utterance and then a response that
\* get_response returns for that utterance in the session the step started from.
C33_TranscriptStructure ==
    /\ [](messages # <<>> =>
            /\ messages[1].role = "assistant"
            /\ messages[1].content \in GreetingMessages
            /\ \A k \in 1..Len(messages) :
                  messages[k].role = "user" =>
                      k < Len(messages) /\ messages[k + 1].role = "assistant")
    /\ [][AppendsUserTurn =>
            /\ messages' = messages \o <<Message("user", user_input'),
                                         Message("assistant", response')>>
            /\ InPool(response', Engine(script, user_input', CurrentSession).pool)]_vars

\* a transcript of the greeting and two exchanges
C33_Witness ==
    /\ Len(messages) = 5
    /\ messages[2].role = "user" /\ messages[4].role = "user"
    /\ messages[5].content = response

-----------------------------------------------------------------------------
\* C34: every non-empty text the recogniser delivers is appended as a user
\* turn and passed to get_response, whatever the text is: no run of the listen
\* block on a recognised text ends in a re-prompt without a user turn.
C34_RecognisedTextIsATurn ==
    \A text \in Utterances :
        ~ENABLED (/\ Turn(text)
                  /\ ~(/\ Len(messages') = Len(messages) + 2
                       /\ messages'[Len(messages) + 1] = Message("user", text)
                       /\ response' # None))

-----------------------------------------------------------------------------
\* the re-prompts of voice2.py
Reprompts == {unclear_prompts[k] : k \in 1..3} \cup {silent_prompts[k] : k \in 1..3}
EscalatedPrompts == {unclear_escalated[1], silent_escalated[1]}

\* the failed listens since the last greeting or response: the re-prompts at
\* the end of the transcript
ConsecutiveFailures ==
    Cardinality({k \in 1..Len(messages) :
                    \A j \in k..Len(messages) :
                        messages[j].content \in Reprompts \cup EscalatedPrompts})

\* C35: retry escalation of voice2.py with the microphone: retry_count is the
\* number of consecutive failed listens modulo 3 and stays within 0..2; every
\* failed listen, unclear or silent, advances the one counter; the prompt is
\* the escalated one exactly when the failure is the third in a row, and the
\* count is then 0 again; a recognised utterance, start and reset set it to 0.
C35_RetryEscalation ==
    /\ [](script = "voice2.py" /\ ~IS_CLOUD =>
            /\ retry_count \in 0..2
            /\ retry_count = ConsecutiveFailures % 3)
    /\ [][script = "voice2.py" /\ ~IS_CLOUD =>
            /\ event' \in {"unclear", "silent"} =>
                  /\ retry_count' = (retry_count + 1) % 3
                  /\ Len(messages') = Len(messages) + 1
                  /\ messages'[Len(messages')].content \in
                        (IF retry_count = 2 THEN EscalatedPrompts ELSE Reprompts)
                  /\ messages'[Len(messages')].content \in
                        (IF event' = "unclear"
                         THEN {unclear_prompts[k] : k \in 1..3} \cup {unclear_escalated[1]}
                         ELSE {silent_prompts[k] : k \in 1..3} \cup {silent_escalated[1]})
            /\ event' \in {"turn", "start", "reset"} => retry_count' = 0]_vars

\* the third failed listen in a row has been answered by the escalated prompt
C35_Witness ==
    /\ script = "voice2.py" /\ ~IS_CLOUD
    /\ event \in {"unclear", "silent"}
    /\ Len(messages) = 4
    /\ messages[4].content \in EscalatedPrompts
    /\ retry_count = 0

-----------------------------------------------------------------------------
\* C36: the engine of voice3.py is equivalent to the engine of voice2.py: on
\* every call, from the session the call starts in, extract_info of the two
\* scripts stores the same trip, get_response of the two scripts leaves the same
\* destination, travelers, budget, confirmed, conversation_ended,
\* conversation_active and last_question_type and draws the response from the
\* same template pool; and what a run of voice3.py stores and returns is what
\* get_response of voice2.py yields for the same utterance.
C36_EngineEquivalence ==
    [][event' = "call" =>
         /\ voice3_get_response(user_input', CurrentSession).session
                = get_response(user_input', CurrentSession).session
         /\ voice3_get_response(user_input', CurrentSession).pool
                = get_response(user_input', CurrentSession).pool
         /\ ExtractInfo("voice3.py", user_input', user_data)
                = ExtractInfo("voice2.py", user_input', user_data)
         /\ script = "voice3.py" =>
               /\ CurrentSession' = get_response(user_input', CurrentSession).session
               /\ InPool(response', get_response(user_input', CurrentSession).pool)]_vars

\* voice3.py has asked for the budget after two calls that filled the trip
C36_Witness ==
    /\ script = "voice3.py"
    /\ event = "call"
    /\ user_data.destination = "Tokyo"
    /\ user_data.travelers = "1 person (Solo)"
    /\ last_question_type = "budget"
    /\ InPool(response, budget_questions(user_data))

-----------------------------------------------------------------------------
\* the number of entries the log panel of a script keeps
LogLimit(file) == IF file = "voice2.py" THEN 200 ELSE 50

\* the last n entries of a list
LastEntries(log, n) == SubSeq(log, Len(log) - n + 1, Len(log))

\* C37: after every add_log call the log holds at most 50 entries (200 in
\* voice2.py): the call leaves the old list with the new entry appended when
\* that fits the limit, and otherwise its last 50 (200) entries, so the oldest
\* entry is the one evicted; the entries held are always the most recently
\* added ones in the order of their calls.
C37_LogWindow ==
    /\ [](/\ Len(logs) <= LogLimit(script)
          /\ \A k \in 1..Len(logs) : logs[k] = log_calls - Len(logs) + k)
    /\ [][event' = "add_log" =>
            /\ Len(logs') <= LogLimit(script)
            /\ logs' = (IF Len(logs) + 1 <= LogLimit(script)
                        THEN Append(logs, log_calls')
                        ELSE LastEntries(Append(logs, log_calls'), LogLimit(script)))]_vars

\* voice2.py after 202 calls: the first two entries are gone
C37_Witness ==
    /\ script = "voice2.py"
    /\ event = "add_log"
    /\ log_calls = 202
    /\ Len(logs) = 200
    /\ logs[1] = 3 /\ logs[200] = 202

====
